---- MODULE Spec2Model ----
(***************************************************************************)
(* Mineru Parse: the concurrent batch queue (BatchQueue), the per-document *)
(* parse pipeline (parseItem) and the batch window's calls into the queue. *)
(*                                                                         *)
(* Spec      the queue over NTasks tasks; a parseItem invocation is seen   *)
(*           through the interface runTask gives it (the callbacks, the    *)
(*           return and the throw).                                        *)
(* SpecPipe  one task whose parseItem invocation is followed await by      *)
(*           await, with the queue operations interleaved.                 *)
(* SpecLive  Spec's start operations and pipeline events under weak        *)
(*           fairness of every pipeline invocation ending.                 *)
(* SpecSelect Spec's buttons with the start-selected button.               *)
(* SpecZip, SpecCache, SpecLookup, SpecPause, SpecAdd, SpecPoll,           *)
(* SpecPollLive, SpecImport, SpecImages, SpecAuto and SpecAutoLive follow  *)
(* one subsystem each: the archive extraction, the cache directory, the    *)
(* lookup over a populated cache, the pause-capable queue, the add         *)
(* operations, the status polling loop, the image import, its reads and    *)
(* attachment imports, and auto-parse.                                     *)
(*                                                                         *)
(* Strings are modelled as sequences of words; String.includes is the      *)
(* occurrence of a word, toLowerCase is a per-word case fold.  Timestamps  *)
(* and note identifiers are kept as defined (TRUE) / undefined (FALSE).    *)
(***************************************************************************)
EXTENDS Integers, Sequences, FiniteSets, TLC

(* ---------------------------- bounds ----------------------------------- *)
NTasks == 2
MaxSession == 2
MaxPolls == 2
MaxImages == 1
MaxEntries == 2
MaxDirs == 1
MaxLoops == 2
MaxAdds == 2

(* ------------------------ program constants ---------------------------- *)
CONCURRENCY_MIN == 1
CONCURRENCY_MAX == 5
CONCURRENCY_DEFAULT == 2
IMPORT_CHUNK_SIZE == 250
IMAGE_CONCURRENCY == 8

VARIABLES
  tasks,          \* the window's task list: sequence of BatchTask records
  runningCount,   \* BatchQueue.runningCount
  stopRequested,  \* BatchQueue.stopRequested
  sessionID,      \* BatchQueue.sessionID
  concurrencyPref,\* the raw batch_parse_concurrency preference
  run,            \* per task: the runTask invocation in flight (pc, session, scope)
  started,        \* history (SpecLive): start(tasks) has been called
  retried,        \* history: tasks that retry put back to queued, still queued
  pipe,           \* the parseItem invocation followed in detail (SpecPipe)
  zip,            \* extractMarkdown's loop over one archive (SpecZip)
  cacheDirs,      \* the children of the cache base directory (SpecCache)
  call,           \* the parseItem call in progress over cacheDirs (SpecCache)
  items,          \* batch/batchWindow.ts BatchQueue.items (SpecPause)
  orderedKeys,    \* BatchQueue.orderedKeys
  state,          \* BatchQueue.state
  cancelFlag,     \* BatchQueue.cancelFlag
  pauseFlag,      \* BatchQueue.pauseFlag
  loops,          \* the start() invocations of that queue in flight
  adding,         \* the add operations on the window's task list (SpecAdd)
  imp,            \* importMarkdownToNote from its image stage on (SpecImport)
  auto,           \* autoParse.ts: queue, queuedParents, processing, the run
  poll,           \* pollBatchResult's loop with its clock (SpecPoll)
  img             \* batchImportImages read by read (SpecImages)

(* the variables the batch queue's actions leave alone *)
fileVars == <<zip, cacheDirs, call>>

pauseVars == <<items, orderedKeys, state, cancelFlag, pauseFlag, loops>>

lateVars == <<imp, auto, poll, img>>

otherVars == <<fileVars, pauseVars, adding, lateVars>>

(* the variables of the batch queue and of the pipeline it drives *)
queueVars == <<tasks, runningCount, stopRequested, sessionID, concurrencyPref,
               run, started, retried, pipe>>

vars == <<queueVars, otherVars>>

(* ------------------------------ strings -------------------------------- *)
ToLowerWord(w) ==
  CASE w = "Cancelled" -> "cancelled"
    [] w = "CANCELED" -> "canceled"
    [] OTHER -> w

toLowerCase(s) == [i \in DOMAIN s |-> ToLowerWord(s[i])]

includes(s, w) == \E i \in DOMAIN s : s[i] = w

CancelError == <<"已取消">>

normalizeErrorMessage(message) ==
  IF message = <<>> THEN <<"Unknown error">> ELSE message

isCancelErrorAsciiOnly(message) ==
  LET lower == toLowerCase(message) IN
    \/ includes(lower, "canceled")
    \/ includes(lower, "cancelled")

isCancelError(message) ==
  LET lower == toLowerCase(message) IN
    \/ includes(message, "已取消")
    \/ includes(lower, "canceled")
    \/ includes(lower, "cancelled")

(* --------------------------- concurrency ------------------------------- *)
Max(a, b) == IF a >= b THEN a ELSE b
Min(a, b) == IF a <= b THEN a ELSE b

(* a JavaScript number: finite with an integer value, or NaN *)
Num(n) == [finite |-> TRUE, n |-> n]
NaN == [finite |-> FALSE, n |-> 0]

PrefValues == {NaN, Num(0), Num(7)}

normalizeConcurrency(value) ==
  IF ~value.finite THEN CONCURRENCY_DEFAULT
  ELSE Max(CONCURRENCY_MIN, Min(CONCURRENCY_MAX, value.n))

getConcurrency == normalizeConcurrency(concurrencyPref)

clampProgress(progress) ==
  IF ~progress.finite THEN 0 ELSE Min(100, Max(0, progress.n))

(* ------------------------------ tasks ---------------------------------- *)
Terminal == {"success", "failed", "stopped"}

NewTask ==
  [status |-> "queued", statusText |-> "", progress |-> 0,
   startedAt |-> FALSE, endedAt |-> FALSE, durationMs |-> FALSE,
   noteID |-> FALSE, errorMessage |-> <<>>, cancelRequested |-> FALSE]

NoRun == [pc |-> "none", session |-> 0, scope |-> {}]

Ids == DOMAIN tasks

InFlight(t) == run[t].pc # "none"

ShouldCancelIgnoresTask(t) ==
  \/ run[t].session # sessionID
  \/ stopRequested

(* shouldCancel as runTask passes it to parseItem *)
ShouldCancel(t) ==
  \/ run[t].session # sessionID
  \/ stopRequested
  \/ tasks[t].cancelRequested

(* --------------------------- BatchQueue -------------------------------- *)
(* tasks.find(task => task.status === "queued") over the list pump was given *)
HasQueued(ts, scope) == \E i \in scope : ts[i].status = "queued"

LastQueued(ts, scope) ==
  CHOOSE i \in scope :
    /\ ts[i].status = "queued"
    /\ \A j \in scope : ts[j].status = "queued" => j <= i

FirstQueued(ts, scope) ==
  CHOOSE i \in scope :
    /\ ts[i].status = "queued"
    /\ \A j \in scope : ts[j].status = "queued" => i <= j

(* runTask up to its first await: the task enters the running set *)
RunTaskEnter(task) ==
  [task EXCEPT !.status = "running", !.statusText = "running",
               !.progress = Max(1, task.progress),
               !.cancelRequested = FALSE, !.startedAt = TRUE,
               !.endedAt = FALSE, !.durationMs = FALSE]

(* pump: the loop, as the state [tasks, run, runningCount] it leaves *)
RECURSIVE PumpLoop(_, _, _, _, _, _)
PumpLoop(ts, rn, rc, scope, sid, stop) ==
  IF /\ ~stop
     /\ rc < Max(1, getConcurrency)
     /\ HasQueued(ts, scope)
  THEN LET next == FirstQueued(ts, scope) IN
         PumpLoop([ts EXCEPT ![next] = RunTaskEnter(ts[next])],
                  [rn EXCEPT ![next] =
                     [pc |-> "parseItem", session |-> sid, scope |-> scope]],
                  rc + 1, scope, sid, stop)
  ELSE [tasks |-> ts, run |-> rn, runningCount |-> rc]

pump(ts, rn, rc, scope, sid, curSid, stop) ==
  IF sid # curSid
  THEN [tasks |-> ts, run |-> rn, runningCount |-> rc]
  ELSE PumpLoop(ts, rn, rc, scope, sid, stop)

(* ensureSession, as the [sessionID, stopRequested, runningCount] it leaves *)
ensureSession ==
  IF sessionID = 0 \/ stopRequested
  THEN [sessionID |-> sessionID + 1, stopRequested |-> FALSE, runningCount |-> 0]
  ELSE [sessionID |-> sessionID, stopRequested |-> stopRequested,
        runningCount |-> runningCount]

SessionRoom == (sessionID = 0 \/ stopRequested) => sessionID < MaxSession

retryFields(task) ==
  [task EXCEPT !.status = "queued", !.statusText = "", !.progress = 0,
               !.startedAt = FALSE, !.endedAt = FALSE, !.durationMs = FALSE,
               !.errorMessage = <<>>, !.noteID = FALSE,
               !.cancelRequested = FALSE]

retryAnyStatus(task) ==
  IF task.status = "running" THEN task ELSE retryFields(task)

retry(task) ==
  IF task.status # "failed" /\ task.status # "stopped" THEN task
  ELSE retryFields(task)

StillRetried(ts, add) == {i \in retried \cup add : ts[i].status = "queued"}

(* start(tasks) *)
start ==
  /\ SessionRoom
  /\ LET s == ensureSession
         p == pump(tasks, run, s.runningCount, Ids, s.sessionID, s.sessionID,
                   s.stopRequested)
     IN /\ sessionID' = s.sessionID
        /\ stopRequested' = s.stopRequested
        /\ tasks' = p.tasks
        /\ run' = p.run
        /\ runningCount' = p.runningCount
        /\ retried' = StillRetried(p.tasks, {})
  /\ UNCHANGED <<concurrencyPref, otherVars, pipe>>

(* the window's start-all button *)
Start == start /\ UNCHANGED started

(* the same, with the call recorded in the history variable *)
StartRecorded == start /\ started' = TRUE

(* startTask(task, [task]), from onRunSingleTask *)
StartTask(t) ==
  /\ t \in Ids
  /\ tasks[t].status \notin {"running", "success"}
  /\ SessionRoom
  /\ LET ts == [tasks EXCEPT ![t] = retry(tasks[t])]
         s == ensureSession
         p == pump(ts, run, s.runningCount, {t}, s.sessionID, s.sessionID,
                   s.stopRequested)
     IN /\ sessionID' = s.sessionID
        /\ stopRequested' = s.stopRequested
        /\ tasks' = p.tasks
        /\ run' = p.run
        /\ runningCount' = p.runningCount
        /\ retried' = StillRetried(p.tasks,
                         IF tasks[t].status \in {"failed", "stopped"}
                         THEN {t} ELSE {})
  /\ UNCHANGED <<concurrencyPref, otherVars, started, pipe>>

stopOneStopsFinished(task) ==
  IF task.status = "running"
  THEN [task EXCEPT !.cancelRequested = TRUE, !.statusText = "stopping"]
  ELSE [task EXCEPT !.status = "stopped", !.statusText = "", !.progress = 0]

stopOneLeavesQueued(task) ==
  IF task.status = "running"
  THEN [task EXCEPT !.cancelRequested = TRUE, !.statusText = "stopping"]
  ELSE task

stopOne(task) ==
  IF task.status = "queued"
  THEN [task EXCEPT !.status = "stopped", !.statusText = "", !.progress = 0]
  ELSE IF task.status = "running"
  THEN [task EXCEPT !.cancelRequested = TRUE, !.statusText = "stopping"]
  ELSE task

StopAll ==
  /\ stopRequested' = TRUE
  /\ tasks' = [i \in Ids |-> stopOne(tasks[i])]
  /\ retried' = {}
  /\ UNCHANGED <<runningCount, sessionID, concurrencyPref, otherVars, run, started, pipe>>

StopTask(t) ==
  /\ t \in Ids
  /\ tasks' = [tasks EXCEPT ![t] = stopOne(tasks[t])]
  /\ UNCHANGED <<runningCount, stopRequested, sessionID, concurrencyPref, otherVars,
                 run, started, retried, pipe>>

Retry(t) ==
  /\ t \in Ids
  /\ tasks' = [tasks EXCEPT ![t] = retry(tasks[t])]
  /\ UNCHANGED <<runningCount, stopRequested, sessionID, concurrencyPref, otherVars,
                 run, started, retried, pipe>>

Reset ==
  /\ sessionID < MaxSession
  /\ stopRequested' = TRUE
  /\ sessionID' = sessionID + 1
  /\ runningCount' = 0
  /\ UNCHANGED <<tasks, concurrencyPref, otherVars, run, started, retried, pipe>>

(* runTask after the await: the try's tail or the catch, on the task *)
runTaskSuccess(task, noteFound) ==
  [task EXCEPT !.status = "success", !.statusText = "success",
               !.progress = 100, !.noteID = noteFound]

runTaskCatch(task, error) ==
  LET message == normalizeErrorMessage(error)
      status == IF isCancelError(message) THEN "stopped" ELSE "failed"
  IN [task EXCEPT !.errorMessage = message,
                  !.status = status, !.statusText = status,
                  !.progress = IF status = "failed"
                               THEN Max(task.progress, 1) ELSE 0]

runTaskFinallyGuard(t, sid) == sid = sessionID

(* runTask's finally: only for the current session, the slot is freed and
   the pump runs again over the list this runTask was given *)
runTaskFinally(ts, t) ==
  LET sid == run[t].session
      rn == [run EXCEPT ![t] = NoRun]
  IN IF runTaskFinallyGuard(t, sid)
     THEN pump([ts EXCEPT ![t].endedAt = TRUE, ![t].durationMs = TRUE],
               rn, Max(0, runningCount - 1), run[t].scope, sid, sessionID,
               stopRequested)
     ELSE [tasks |-> ts, run |-> rn, runningCount |-> runningCount]

(* parseItem returned: try tail, finally; ts is the task list as the
   callbacks of this step left it *)
RunTaskReturnsFrom(ts, t, noteFound) ==
  LET f == runTaskFinally([ts EXCEPT ![t] = runTaskSuccess(ts[t], noteFound)], t)
  IN /\ tasks' = f.tasks
     /\ run' = f.run
     /\ runningCount' = f.runningCount
     /\ retried' = StillRetried(f.tasks, {})
     /\ UNCHANGED <<stopRequested, sessionID, concurrencyPref, otherVars, started>>

(* parseItem threw: catch, finally *)
RunTaskThrowsFrom(ts, t, error) ==
  LET f == runTaskFinally([ts EXCEPT ![t] = runTaskCatch(ts[t], error)], t)
  IN /\ tasks' = f.tasks
     /\ run' = f.run
     /\ runningCount' = f.runningCount
     /\ retried' = StillRetried(f.tasks, {})
     /\ UNCHANGED <<stopRequested, sessionID, concurrencyPref, otherVars, started>>

RunTaskReturns(t, noteFound) == RunTaskReturnsFrom(tasks, t, noteFound)

RunTaskThrows(t, error) == RunTaskThrowsFrom(tasks, t, error)

(* the callbacks runTask hands to parseItem *)
onStatusChangeSetsStatus(ts, t, status, text) ==
  IF run[t].session # sessionID THEN ts
  ELSE [ts EXCEPT ![t].statusText = IF status # "" THEN status ELSE text,
                  ![t].status = IF status # "" THEN status ELSE text]

onStatusChange(ts, t, status, text) ==
  IF run[t].session # sessionID THEN ts
  ELSE [ts EXCEPT ![t].statusText = IF status # "" THEN status ELSE text]

onProgress(ts, t, progress) ==
  IF run[t].session # sessionID THEN ts
  ELSE [ts EXCEPT ![t].progress = clampProgress(progress)]

(* ------------- parseItem as runTask sees it (Spec, SpecLive) ----------- *)
StageReports == {<<"importing", Num(70)>>}

OtherErrors == {<<"error-no-token">>}

ParseItemReports(t) ==
  /\ t \in Ids
  /\ run[t].pc = "parseItem"
  /\ \E r \in StageReports :
       tasks' = onProgress(onStatusChange(tasks, t, r[1], r[1]), t, r[2])
  /\ UNCHANGED <<runningCount, stopRequested, sessionID, concurrencyPref, otherVars,
                 run, started, retried, pipe>>

ParseItemReturns(t) ==
  /\ t \in Ids
  /\ run[t].pc = "parseItem"
  /\ RunTaskReturns(t, TRUE)
  /\ UNCHANGED pipe

ParseItemCancelled(t) ==
  /\ t \in Ids
  /\ run[t].pc = "parseItem"
  /\ ShouldCancel(t)
  /\ RunTaskThrows(t, CancelError)
  /\ UNCHANGED pipe

ParseItemFails(t) ==
  /\ t \in Ids
  /\ run[t].pc = "parseItem"
  /\ \E e \in OtherErrors : RunTaskThrows(t, e)
  /\ UNCHANGED pipe

(* --------------- parseItem, await by await (SpecPipe) ------------------ *)
Idle == {"none", "returned", "thrown"}

NoPipe ==
  [pc |-> "none", caller |-> "none", task |-> 0, force |-> FALSE,
   hit |-> FALSE, log |-> <<>>, slots |-> 0, uploads |-> 0, polls |-> 0,
   downloads |-> 0, notes |-> 0, images |-> 0, imgDone |-> 0,
   cancelAt |-> "", error |-> <<>>, cached |-> FALSE, token |-> FALSE]

(* error messages, as word sequences (the Chinese texts in English) *)
ErrBetterNotes == <<"error-better-notes-missing">>
ErrNoPdf == <<"error-no-pdf">>
ErrTooLarge == <<"file larger than 200MB">>
ErrNoToken == <<"error-no-token">>
ErrSlot == <<"upload url request failed">>
ErrUpload == <<"file upload failed">>
ErrQuery == <<"status query failed">>
ErrNoUrl == <<"done without download url">>
ErrTimeout == <<"timed out">>
ErrDownload == <<"download failed">>
ErrUnsafeZip == <<"unsafe archive path">>
ErrNoMarkdown == <<"no markdown in archive">>
ErrMdMissing == <<"result file not found">>
ErrSave == <<"saveTx failed">>

RemoteMsgs == {<<>>, <<"corrupt pdf">>, <<"job", "Cancelled">>}

ErrRemote(m) == <<"parse failed:">> \o (IF m = <<>> THEN <<"unknown reason">> ELSE m)

(* callbacks.shouldCancel?.() for the invocation followed *)
PipeShouldCancel ==
  IF pipe.caller = "batch" THEN ShouldCancel(pipe.task) ELSE FALSE

(* one callback call: onStatusChange(stage, text) or onProgress(n) *)
St(stage) == [kind |-> "status", stage |-> stage, n |-> 0]
Pr(n) == [kind |-> "progress", stage |-> "", n |-> n]

RECURSIVE ApplyEvents(_, _, _)
ApplyEvents(ts, t, evs) ==
  IF evs = <<>> THEN ts
  ELSE LET e == Head(evs)
           ts1 == IF e.kind = "status"
                  THEN onStatusChange(ts, t, e.stage, e.stage)
                  ELSE onProgress(ts, t, Num(e.n))
       IN ApplyEvents(ts1, t, Tail(evs))

RECURSIVE Stages(_)
Stages(evs) ==
  IF evs = <<>> THEN <<>>
  ELSE IF Head(evs).kind = "status"
       THEN <<Head(evs).stage>> \o Stages(Tail(evs))
       ELSE Stages(Tail(evs))

(* what the code run between two awaits leaves: the callbacks it made, the
   invocation's next position, and how it ended if it ended *)
Goes(p, evs) == [pipe |-> p, events |-> evs, end |-> "none", error |-> <<>>]
Throws(p, evs, error) ==
  [pipe |-> [p EXCEPT !.pc = "thrown", !.error = error],
   events |-> evs, end |-> "throw", error |-> error]
Returns(p, evs) ==
  [pipe |-> [p EXCEPT !.pc = "returned"],
   events |-> evs, end |-> "return", error |-> <<>>]

(* a shouldCancel call that returned true at this site *)
Seen(p, site) == IF p.cancelAt = "" THEN [p EXCEPT !.cancelAt = site] ELSE p

Cancelled(p, evs, site) == Throws(Seen(p, site), evs, CancelError)

(* the step takes effect: callbacks on the caller, then the caller's
   continuation if parseItem ended *)
ApplyAs(caller, t, log, r) ==
  LET p == [r.pipe EXCEPT !.log = log \o Stages(r.events)] IN
    /\ pipe' = p
    /\ IF caller = "batch"
       THEN LET ts == ApplyEvents(tasks, t, r.events) IN
              CASE r.end = "none" ->
                     /\ tasks' = ts
                     /\ UNCHANGED <<runningCount, stopRequested, sessionID,
                                    concurrencyPref, otherVars, run, started, retried>>
                [] r.end = "return" -> RunTaskReturnsFrom(ts, t, p.notes > 0)
                [] r.end = "throw" -> RunTaskThrowsFrom(ts, t, r.error)
       ELSE UNCHANGED <<tasks, runningCount, stopRequested, sessionID,
                        concurrencyPref, otherVars, run, started, retried>>

Apply(r) == ApplyAs(pipe.caller, pipe.task, pipe.log, r)

missEntryRequestsFirst(p, cancel) ==
  LET evs == <<St("uploading"), Pr(10)>>
      q == [p EXCEPT !.slots = p.slots + 1]
  IN IF cancel THEN Cancelled(p, evs, "beforeSlot")
     ELSE IF ~p.token THEN Throws(q, evs, ErrNoToken)
     ELSE Goes([q EXCEPT !.pc = "slot"], evs)

(* parseItem lines 1104-1120: token, "uploading", slot request *)
missEntry(p, cancel) ==
  LET evs == <<St("uploading"), Pr(10)>> IN
    IF ~p.token THEN Throws(p, <<>>, ErrNoToken)
    ELSE IF cancel THEN Cancelled(p, evs, "beforeSlot")
    ELSE Goes([p EXCEPT !.pc = "slot", !.slots = p.slots + 1], evs)

preChecksIgnoresForce(p, pre, cancel) ==
  CASE pre = "noBetterNotes" -> Throws(p, <<>>, ErrBetterNotes)
    [] pre = "noPdf" -> Throws(p, <<>>, ErrNoPdf)
    [] pre = "tooLarge" -> Throws(p, <<>>, ErrTooLarge)
    [] OTHER ->
         IF cancel THEN Cancelled(p, <<>>, "beforeCache")
         ELSE Goes([p EXCEPT !.pc = "cacheLookup"], <<>>)

(* parseItem lines 1046-1077: preconditions, then the cache lookup unless
   force is set *)
preChecks(p, pre, cancel) ==
  CASE pre = "noBetterNotes" -> Throws(p, <<>>, ErrBetterNotes)
    [] pre = "noPdf" -> Throws(p, <<>>, ErrNoPdf)
    [] pre = "tooLarge" -> Throws(p, <<>>, ErrTooLarge)
    [] OTHER ->
         IF cancel THEN Cancelled(p, <<>>, "beforeCache")
         ELSE IF p.force THEN missEntry(p, cancel)
         ELSE Goes([p EXCEPT !.pc = "cacheLookup"], <<>>)

afterCacheLookupTokenFirst(p, cancel) ==
  IF ~p.token THEN Throws([p EXCEPT !.hit = p.cached], <<>>, ErrNoToken)
  ELSE IF p.cached
  THEN LET evs == <<St("importing"), Pr(40), St("importing"), Pr(70)>>
           q == [p EXCEPT !.hit = TRUE]
       IN IF cancel THEN Cancelled(q, evs, "hitBeforeNote")
          ELSE Goes([q EXCEPT !.pc = "createNote"], evs)
  ELSE missEntry(p, cancel)

(* parseItem lines 1079-1087 on a hit, 1104-1120 on a miss *)
afterCacheLookup(p, cancel) ==
  IF p.cached
  THEN LET evs == <<St("importing"), Pr(40), St("importing"), Pr(70)>>
           q == [p EXCEPT !.hit = TRUE]
       IN IF cancel THEN Cancelled(q, evs, "hitBeforeNote")
          ELSE Goes([q EXCEPT !.pc = "createNote"], evs)
  ELSE missEntry(p, cancel)

(* parseItem lines 1115-1122 *)
afterSlot(p, ok, cancel) ==
  IF ~ok THEN Throws(p, <<>>, ErrSlot)
  ELSE IF cancel THEN Cancelled(p, <<>>, "afterSlot")
  ELSE Goes([p EXCEPT !.pc = "upload", !.uploads = p.uploads + 1], <<>>)

(* pollBatchResult lines 1492-1505: the loop head up to the request *)
pollIter(p, evs, timedOut, cancel) ==
  IF timedOut THEN Throws(p, evs, ErrTimeout)
  ELSE IF cancel THEN Cancelled(p, evs, "pollLoop")
  ELSE Goes([p EXCEPT !.pc = "poll", !.polls = p.polls + 1], evs)

afterUploadPollsFirst(p, ok, cancel) ==
  IF ~ok THEN Throws(p, <<>>, ErrUpload)
  ELSE IF cancel
       THEN Cancelled([p EXCEPT !.polls = p.polls + 1], <<>>, "afterUpload")
       ELSE pollIter(p, <<St("queued"), Pr(30)>>, FALSE, cancel)

(* parseItem lines 1122-1143 *)
afterUpload(p, ok, cancel) ==
  IF ~ok THEN Throws(p, <<>>, ErrUpload)
  ELSE IF cancel THEN Cancelled(p, <<>>, "afterUpload")
  ELSE pollIter(p, <<St("queued"), Pr(30)>>, FALSE, cancel)

(* Math.round(a / b) for a >= 0, b > 0 *)
Round(a, b) == (2 * a + b) \div (2 * b)

PollResponses ==
  {[kind |-> k, msg |-> <<>>, pages |-> <<>>] :
     k \in {"badCode", "noResult", "done", "doneNoUrl", "pending",
            "converting", "other"}}
  \cup {[kind |-> "failed", msg |-> m, pages |-> <<>>] : m \in RemoteMsgs}
  \cup {[kind |-> "running", msg |-> <<>>, pages |-> g] : g \in {<<>>, <<1, 2>>}}

(* pollBatchResult lines 1506-1555, and parseItem lines 1144-1148 when the
   poll returns the result URL *)
afterPoll(p, resp, cancel) ==
  CASE resp.kind \in {"badCode", "noResult"} -> Throws(p, <<>>, ErrQuery)
    [] resp.kind = "doneNoUrl" -> Throws(p, <<>>, ErrNoUrl)
    [] resp.kind = "failed" -> Throws(p, <<>>, ErrRemote(resp.msg))
    [] resp.kind = "done" ->
         IF cancel THEN Cancelled(p, <<>>, "afterPoll")
         ELSE Goes([p EXCEPT !.pc = "download", !.downloads = p.downloads + 1],
                   <<St("downloading"), Pr(70)>>)
    [] resp.kind = "pending" ->
         Goes([p EXCEPT !.pc = "sleep"], <<St("parsing"), Pr(40)>>)
    [] resp.kind = "running" ->
         Goes([p EXCEPT !.pc = "sleep"],
              <<St("parsing"),
                Pr(IF resp.pages = <<>> THEN 55
                   ELSE 40 + Round(Min(resp.pages[2], resp.pages[1]) * 20,
                                   resp.pages[2]))>>)
    [] resp.kind = "converting" ->
         Goes([p EXCEPT !.pc = "sleep"], <<St("parsing"), Pr(60)>>)
    [] OTHER -> Goes([p EXCEPT !.pc = "sleep"], <<>>)

(* parseItem lines 1148-1150 *)
afterDownload(p, ok, cancel) ==
  IF ~ok THEN Throws(p, <<>>, ErrDownload)
  ELSE IF cancel THEN Cancelled(p, <<>>, "afterDownload")
  ELSE Goes([p EXCEPT !.pc = "extract"], <<>>)

(* parseItem lines 1150-1152: createTempDir, extractMarkdown; the output
   directory with its Markdown file is what a later lookup finds *)
afterExtract(p, res) ==
  CASE res = "unsafe" -> Throws(p, <<>>, ErrUnsafeZip)
    [] res = "noMarkdown" -> Throws(p, <<>>, ErrNoMarkdown)
    [] OTHER -> Goes([p EXCEPT !.pc = "writeCache", !.cached = TRUE], <<>>)

afterWriteCacheReportsDownloading(p, cancel) ==
  LET evs == <<St("importing"), Pr(85), St("downloading")>> IN
    IF cancel THEN Cancelled(p, evs, "beforeNote")
    ELSE Goes([p EXCEPT !.pc = "createNote"], evs)

(* parseItem lines 1152-1167 *)
afterWriteCache(p, cancel) ==
  LET evs == <<St("importing"), Pr(85)>> IN
    IF cancel THEN Cancelled(p, evs, "beforeNote")
    ELSE Goes([p EXCEPT !.pc = "createNote"], evs)

(* importMarkdownToNote's progress range *)
progressStart(p) == IF p.hit THEN 70 ELSE 85
progressEnd(p) == 99
progressSpan(p) == Max(0, progressEnd(p) - progressStart(p))
convertProgressEnd(p) == progressStart(p) + Round(progressSpan(p) * 15, 100)
imageProgressEnd(p) == progressStart(p) + Round(progressSpan(p) * 90, 100)
imageProgressSpan(p) == imageProgressEnd(p) - convertProgressEnd(p)

(* updateProgress(status-importing, value) through callbacksToProgressLine *)
updateProgress(p, value) ==
  <<St("importing"), Pr(Min(progressEnd(p), Max(progressStart(p), value)))>>

(* batchImportImages' onProgress closure, lines 1342-1362 *)
imageProgress(p, done, total, phase) ==
  LET span == imageProgressSpan(p)
      den == 10 * (IF total > 0 THEN total ELSE 1)
      d == IF total > 0 THEN done ELSE 0
      num == IF phase = "reading" THEN 4 * span * d
             ELSE 4 * span * (den \div 10) + 6 * span * d
  IN updateProgress(p, convertProgressEnd(p) + Round(num, den))

(* createItemNote resolved; importMarkdownToNote lines 1257-1270 *)
afterCreateNote(p, ok, cancel) ==
  IF ~ok THEN Throws(p, <<>>, ErrSave)
  ELSE LET q == [p EXCEPT !.notes = p.notes + 1] IN
         IF cancel THEN Cancelled(q, <<>>, "importStart")
         ELSE Goes([q EXCEPT !.pc = "impExists"], <<>>)

(* lines 1270-1302 *)
afterExists(p, exists) ==
  IF ~exists THEN Throws(p, <<>>, ErrMdMissing)
  ELSE Goes([p EXCEPT !.pc = "impRead"], <<>>)

afterReadReportsCacheCheck(p, cancel) ==
  IF cancel THEN Cancelled(p, <<>>, "afterRead")
  ELSE Goes([p EXCEPT !.pc = "impTick1"],
            <<St("cache-check")>> \o updateProgress(p, progressStart(p)))

(* lines 1303-1305 *)
afterRead(p, cancel) ==
  IF cancel THEN Cancelled(p, <<>>, "afterRead")
  ELSE Goes([p EXCEPT !.pc = "impTick1"], updateProgress(p, progressStart(p)))

(* lines 1308-1313 *)
afterTick1(p) == Goes([p EXCEPT !.pc = "md2html"], <<>>)

(* lines 1314-1318 *)
afterMd2html(p, cancel) ==
  IF cancel THEN Cancelled(p, <<>>, "afterMd2html")
  ELSE Goes([p EXCEPT !.pc = "impTick2"],
            updateProgress(p, convertProgressEnd(p)))

(* lines 1322-1340 and 1381 when there is no image; batchImportImages up
   to the reads otherwise *)
afterTick2(p, n, cancel) ==
  IF cancel THEN Cancelled(p, <<>>, "beforeImages")
  ELSE IF n = 0
  THEN Goes([p EXCEPT !.pc = "impTick3", !.images = 0],
            updateProgress(p, imageProgressEnd(p)))
  ELSE Goes([p EXCEPT !.pc = "imgRead", !.images = n, !.imgDone = 0],
            imageProgress(p, 0, n, "reading"))

RECURSIVE readProgress(_, _, _)
readProgress(p, done, total) ==
  IF done > total THEN <<>>
  ELSE imageProgress(p, done, total, "reading")
         \o readProgress(p, done + 1, total)

(* the reads of the one chunk resolved; the onProgress closure's
   updateProgress is not awaited: when shouldCancel returns true its
   rejection is dropped and nothing is reported *)
afterImgRead(p, cancel) ==
  IF cancel THEN Goes([Seen(p, "imageProgress") EXCEPT !.pc = "imgImport"], <<>>)
  ELSE Goes([p EXCEPT !.pc = "imgImport"],
            readProgress(p, 1, p.images)
              \o imageProgress(p, 0, p.images, "importing"))

(* one importEmbeddedImage resolved; after the last, lines 1367-1381 *)
afterImgImport(p, cancel) ==
  LET done == p.imgDone + 1
      q == [p EXCEPT !.imgDone = done]
      evs == IF cancel THEN <<>>
             ELSE imageProgress(p, done, p.images, "importing")
      q1 == IF cancel THEN Seen(q, "imageProgress") ELSE q
  IN IF done < p.images THEN Goes(q1, evs)
     ELSE IF cancel THEN Cancelled(q1, evs, "afterImages")
     ELSE Goes([q1 EXCEPT !.pc = "impTick3"],
               evs \o updateProgress(p, imageProgressEnd(p)))

(* lines 1382-1397 *)
afterTick3(p, cancel) ==
  IF cancel THEN Cancelled(p, <<>>, "beforeSave")
  ELSE Goes([p EXCEPT !.pc = "impSave"], <<>>)

(* lines 1393-1399 *)
afterSave(p, ok, cancel) ==
  IF ~ok THEN Throws(p, <<>>, ErrSave)
  ELSE IF cancel THEN Cancelled(p, <<>>, "afterSave")
  ELSE Goes([p EXCEPT !.pc = "impTick4"], updateProgress(p, progressEnd(p)))

(* importMarkdownToNote returned; parseItem lines 1099-1101, 1180-1181 *)
afterTick4(p) == Returns(p, <<St("done"), Pr(100)>>)

(* ----- the actions: one per resumption of parseItem after an await ----- *)
Fresh(caller, t, force) ==
  [NoPipe EXCEPT !.caller = caller, !.task = t, !.force = force,
                 !.cached = pipe.cached, !.token = pipe.token]

PreOutcomes == {"ok", "noBetterNotes", "noPdf", "tooLarge"}

(* parseItem called by runTask, options {} *)
BatchParseItem(t) ==
  /\ t \in Ids
  /\ run[t].pc = "parseItem"
  /\ pipe.pc \in Idle
  /\ \E pre \in PreOutcomes :
       ApplyAs("batch", t, <<>>,
               preChecks(Fresh("batch", t, FALSE), pre, ShouldCancel(t)))

(* parseItem called by parseSelectedItem(options), without shouldCancel *)
ParseSelectedItem(force) ==
  /\ pipe.pc \in Idle
  /\ \A t \in Ids : run[t].pc = "none"
  /\ \E pre \in PreOutcomes :
       ApplyAs("single", 0, <<>>,
               preChecks(Fresh("single", 0, force), pre, FALSE))

CacheLookupDone ==
  /\ pipe.pc = "cacheLookup"
  /\ Apply(afterCacheLookup(pipe, PipeShouldCancel))

SlotDone ==
  /\ pipe.pc = "slot"
  /\ \E ok \in BOOLEAN : Apply(afterSlot(pipe, ok, PipeShouldCancel))

UploadDone ==
  /\ pipe.pc = "upload"
  /\ \E ok \in BOOLEAN : Apply(afterUpload(pipe, ok, PipeShouldCancel))

PollDone ==
  /\ pipe.pc = "poll"
  /\ \E resp \in PollResponses : Apply(afterPoll(pipe, resp, PipeShouldCancel))

SleepDone ==
  /\ pipe.pc = "sleep"
  /\ \E timedOut \in BOOLEAN :
       /\ (~timedOut /\ ~PipeShouldCancel) => pipe.polls < MaxPolls
       /\ Apply(pollIter(pipe, <<>>, timedOut, PipeShouldCancel))

DownloadDone ==
  /\ pipe.pc = "download"
  /\ \E ok \in BOOLEAN : Apply(afterDownload(pipe, ok, PipeShouldCancel))

ExtractDone ==
  /\ pipe.pc = "extract"
  /\ \E res \in {"ok", "unsafe", "noMarkdown"} : Apply(afterExtract(pipe, res))

WriteCacheDone ==
  /\ pipe.pc = "writeCache"
  /\ Apply(afterWriteCache(pipe, PipeShouldCancel))

CreateNoteDone ==
  /\ pipe.pc = "createNote"
  /\ \E ok \in BOOLEAN : Apply(afterCreateNote(pipe, ok, PipeShouldCancel))

ImportStep ==
  \/ /\ pipe.pc = "impExists"
     /\ \E exists \in BOOLEAN : Apply(afterExists(pipe, exists))
  \/ /\ pipe.pc = "impRead"
     /\ Apply(afterRead(pipe, PipeShouldCancel))
  \/ /\ pipe.pc = "impTick1"
     /\ Apply(afterTick1(pipe))
  \/ /\ pipe.pc = "md2html"
     /\ Apply(afterMd2html(pipe, PipeShouldCancel))
  \/ /\ pipe.pc = "impTick2"
     /\ \E n \in 0..MaxImages : Apply(afterTick2(pipe, n, PipeShouldCancel))
  \/ /\ pipe.pc = "imgRead"
     /\ Apply(afterImgRead(pipe, PipeShouldCancel))
  \/ /\ pipe.pc = "imgImport"
     /\ Apply(afterImgImport(pipe, PipeShouldCancel))
  \/ /\ pipe.pc = "impTick3"
     /\ Apply(afterTick3(pipe, PipeShouldCancel))
  \/ /\ pipe.pc = "impSave"
     /\ \E ok \in BOOLEAN : Apply(afterSave(pipe, ok, PipeShouldCancel))
  \/ /\ pipe.pc = "impTick4"
     /\ Apply(afterTick4(pipe))

(* ----------------- extractMarkdown and selectMarkdown ------------------ *)
(* An archive entry path is a sequence of tokens: a separator ("/" or "\\"),
   a drive prefix ("C:") or a name ("." and ".." are names).  A path below
   the output directory is the sequence of its segments.                   *)
EntryPaths ==
  { <<"full.md">>,
    <<"markdown", "/", "out.md">>,
    <<"x", "/", "Markdown", "/", "b.md">>,
    <<"A.md">>,
    <<"a.md">>,
    <<"x_origin.pdf">>,
    <<"images", "/">>,
    <<".", "/", "full.md">>,
    <<"x", "/", ".", "/", "a.md">>,
    <<"..", "/", "evil.md">>,
    <<"..", "/">>,
    <<"/", "abs.md">>,
    <<"C:", "\\", "x.md">> }

MdNames == {"full.md", "out.md", "b.md", "A.md", "a.md", "evil.md", "abs.md", "x.md"}

(* entryPath.toLowerCase().endsWith(".md") *)
endsWithMd(path) == path # <<>> /\ path[Len(path)] \in MdNames

(* entryPath.endsWith("/") *)
endsWithSlash(path) == path # <<>> /\ path[Len(path)] = "/"

(* /^[a-zA-Z]:/ *)
isDrive(token) == token \in {"C:"}

RECURSIVE dropLeadingSlashes(_)
dropLeadingSlashes(path) ==
  IF path # <<>> /\ path[1] = "/" THEN dropLeadingSlashes(Tail(path)) ELSE path

normalizeZipEntryPathKeepsDots(entryPath) ==
  LET slashed == [i \in DOMAIN entryPath |->
                    IF entryPath[i] = "\\" THEN "/" ELSE entryPath[i]]
      normalized == IF Len(slashed) >= 2 /\ slashed[1] = "." /\ slashed[2] = "/"
                    THEN dropLeadingSlashes(Tail(slashed))
                    ELSE slashed
      segments == SelectSeq(normalized, LAMBDA token : token # "/")
  IN IF normalized = <<>> THEN <<>>
     ELSE IF normalized[1] = "/" THEN <<>>
     ELSE IF isDrive(normalized[1]) THEN <<>>
     ELSE segments

normalizeZipEntryPath(entryPath) ==
  LET slashed == [i \in DOMAIN entryPath |->
                    IF entryPath[i] = "\\" THEN "/" ELSE entryPath[i]]
      normalized == IF Len(slashed) >= 2 /\ slashed[1] = "." /\ slashed[2] = "/"
                    THEN dropLeadingSlashes(Tail(slashed))
                    ELSE slashed
      segments == SelectSeq(normalized, LAMBDA token : token # "/")
  IN IF normalized = <<>> THEN <<>>
     ELSE IF normalized[1] = "/" THEN <<>>
     ELSE IF isDrive(normalized[1]) THEN <<>>
     ELSE IF segments = <<>> THEN <<>>
     ELSE IF \E i \in DOMAIN segments : segments[i] \in {".", ".."} THEN <<>>
     ELSE segments

(* String.toLowerCase on a path segment *)
lowerSegment(seg) ==
  CASE seg = "Markdown" -> "markdown"
    [] seg = "A.md" -> "a.md"
    [] OTHER -> seg

(* the collation key of a segment under { sensitivity: "base" } *)
collate(seg) ==
  CASE lowerSegment(seg) = "a.md" -> 1
    [] seg = "b.md" -> 2
    [] seg = "cache-info.json" -> 3
    [] seg = "evil.md" -> 4
    [] seg = "full.md" -> 5
    [] seg = "images" -> 6
    [] lowerSegment(seg) = "markdown" -> 7
    [] seg = "out.md" -> 8
    [] seg = "x" -> 9
    [] seg = "x.md" -> 10
    [] seg = "x_origin.pdf" -> 11
    [] OTHER -> 12

(* a.localeCompare(b, "en", { sensitivity: "base" }): -1, 0 or 1 *)
RECURSIVE localeCompare(_, _)
localeCompare(a, b) ==
  IF a = <<>> /\ b = <<>> THEN 0
  ELSE IF a = <<>> THEN -1
  ELSE IF b = <<>> THEN 1
  ELSE IF collate(a[1]) < collate(b[1]) THEN -1
  ELSE IF collate(a[1]) > collate(b[1]) THEN 1
  ELSE localeCompare(Tail(a), Tail(b))

(* /(^|\/)markdown\//.test(normalized) *)
isPreferred(p) == \E i \in 1..(Len(p) - 1) : lowerSegment(p[i]) = "markdown"

(* paths.find(...) || paths.slice().sort(...)[0]; the sort is stable *)
selectMarkdown(paths) ==
  IF paths = <<>> THEN <<>>
  ELSE IF \E i \in DOMAIN paths : isPreferred(paths[i])
  THEN paths[CHOOSE i \in DOMAIN paths :
               /\ isPreferred(paths[i])
               /\ \A j \in 1..(i - 1) : ~isPreferred(paths[j])]
  ELSE paths[CHOOSE i \in DOMAIN paths :
               \A j \in DOMAIN paths :
                 \/ localeCompare(paths[i], paths[j]) < 0
                 \/ localeCompare(paths[i], paths[j]) = 0 /\ i <= j]

(* extractMarkdown's state: the archive, the next entry, what was written *)
NoZip ==
  [pc |-> "idle", entries |-> <<>>, i |-> 1, files |-> {}, dirs |-> {},
   mdCandidates |-> <<>>, selected |-> <<>>]

extractEntrySkipsUnsafe(z) ==
  LET entryPath == z.entries[z.i]
      segments == normalizeZipEntryPath(entryPath)
      next == [z EXCEPT !.i = z.i + 1]
  IN IF segments = <<>> THEN next
     ELSE IF endsWithSlash(entryPath)
     THEN [next EXCEPT !.dirs = @ \cup {segments}]
     ELSE [next EXCEPT
             !.dirs = @ \cup {SubSeq(segments, 1, Len(segments) - 1)},
             !.files = @ \cup {segments},
             !.mdCandidates = IF endsWithMd(entryPath)
                              THEN Append(@, segments) ELSE @]

(* one iteration of the for loop over Object.entries(files) *)
extractEntry(z) ==
  LET entryPath == z.entries[z.i]
      segments == normalizeZipEntryPath(entryPath)
      next == [z EXCEPT !.i = z.i + 1]
  IN IF segments = <<>>
     THEN IF entryPath # <<>> /\ ~endsWithSlash(entryPath)
          THEN [z EXCEPT !.pc = "unsafe"]
          ELSE next
     ELSE IF endsWithSlash(entryPath)
     THEN [next EXCEPT !.dirs = @ \cup {segments}]
     ELSE [next EXCEPT
             !.dirs = @ \cup {SubSeq(segments, 1, Len(segments) - 1)},
             !.files = @ \cup {segments},
             !.mdCandidates = IF endsWithMd(entryPath)
                              THEN Append(@, segments) ELSE @]

(* after the loop: selectMarkdown, the throw when nothing was selected *)
extractFinish(z) ==
  LET selected == selectMarkdown(z.mdCandidates)
  IN IF selected = <<>> THEN [z EXCEPT !.pc = "noMarkdown"]
     ELSE [z EXCEPT !.pc = "done", !.selected = selected]

(* extractMarkdown from its call to its return or throw *)
RECURSIVE extractMarkdown(_)
extractMarkdown(z) ==
  IF z.pc # "loop" THEN z
  ELSE IF z.i > Len(z.entries) THEN extractFinish(z)
  ELSE extractMarkdown(extractEntry(z))

RECURSIVE SeqsUpTo(_, _)
SeqsUpTo(S, n) ==
  IF n = 0 THEN {<<>>}
  ELSE LET shorter == SeqsUpTo(S, n - 1)
       IN shorter \cup {Append(s, x) : s \in shorter, x \in S}

NoRepeat(s) == \A i, j \in DOMAIN s : i # j => s[i] # s[j]

(* the archives: the keys of an object are distinct *)
Archives == {a \in SeqsUpTo(EntryPaths, MaxEntries) : NoRepeat(a)}

ExtractEntry ==
  /\ zip.pc = "loop"
  /\ zip.i <= Len(zip.entries)
  /\ zip' = extractEntry(zip)
  /\ UNCHANGED <<queueVars, lateVars, pauseVars, adding, cacheDirs, call>>

ExtractFinish ==
  /\ zip.pc = "loop"
  /\ zip.i > Len(zip.entries)
  /\ zip' = extractFinish(zip)
  /\ UNCHANGED <<queueVars, lateVars, pauseVars, adding, cacheDirs, call>>

(* --------------------------- the result cache -------------------------- *)
(* typeof v !== "number": an optional field that is absent *)
undefined == [finite |-> FALSE, n |-> 1]

isNumber(v) == v # undefined

ItemKeys == {"I1"}

Sizes == {undefined, Num(1), Num(2)}

Mtimes == {undefined, Num(1)}

ModelVersions == {"pipeline", "vlm"}

(* the argument parseItem gives findCachedMarkdown *)
Infos ==
  [itemKey : ItemKeys, attachmentKey : {"A1"}, attachmentSize : Sizes,
   attachmentMtime : Mtimes, modelVersion : ModelVersions]

(* a path below the cache base directory: the child directory and the
   segments below it; NoPath is the empty string *)
NoPath == [dir |-> 0, rel |-> <<>>]

(* readCacheMetadata's null *)
NoMeta == [mdPath |-> NoPath]

(* the archives the remote service answers with here *)
CacheArchives ==
  { <<<<"full.md">>>>,
    <<<<"full.md">>, <<"..", "/", "evil.md">>>>,
    <<<<"x_origin.pdf">>, <<"full.md">>>>,
    <<<<"images", "/">>>> } \cap Archives

(* createTempDir: `${addonRef}-${item.key}-${Date.now()}`, empty *)
NewDir(itemKey, now) ==
  [itemKey |-> itemKey, files |-> {}, mds |-> <<>>, originSize |-> Num(0),
   meta |-> NoMeta, lastModified |-> now, aborted |-> FALSE]

(* IOUtils.exists(path) for a path below the cache base directory *)
exists(path) ==
  /\ path.dir \in DOMAIN cacheDirs
  /\ path.rel \in cacheDirs[path.dir].files

isSameAttachmentBothPresent(meta, info) ==
  /\ meta.attachmentSize = info.attachmentSize
  /\ meta.attachmentMtime = info.attachmentMtime

isSameAttachment(meta, info) ==
  LET sizeMatch == \/ ~isNumber(meta.attachmentSize)
                   \/ ~isNumber(info.attachmentSize)
                   \/ meta.attachmentSize = info.attachmentSize
      mtimeMatch == \/ ~isNumber(meta.attachmentMtime)
                    \/ ~isNumber(info.attachmentMtime)
                    \/ meta.attachmentMtime = info.attachmentMtime
  IN sizeMatch /\ mtimeMatch

(* findMarkdownFile(rootDir); the files are listed in the order written *)
findMarkdownFile(k) ==
  LET selected == selectMarkdown(cacheDirs[k].mds)
  IN IF selected = <<>> THEN NoPath ELSE [dir |-> k, rel |-> selected]

inferCachedMarkdown(k, info) ==
  LET d == cacheDirs[k]
      originPdf == <<"x_origin.pdf">> \in d.files
  IN IF d.itemKey # info.itemKey THEN NoPath
     ELSE IF /\ originPdf
             /\ isNumber(info.attachmentSize)
             /\ d.originSize # Num(0)
             /\ d.originSize # info.attachmentSize
     THEN NoPath
     ELSE findMarkdownFile(k)

(* the candidate one child directory contributes: its path and its score *)
cacheCandidate(k, info) ==
  LET d == cacheDirs[k]
      meta == d.meta
  IN IF meta # NoMeta
     THEN IF /\ meta.itemKey = info.itemKey
             /\ meta.attachmentKey = info.attachmentKey
             /\ isSameAttachment(meta, info)
             /\ (info.modelVersion # "" => meta.modelVersion = info.modelVersion)
             /\ exists(meta.mdPath)
          THEN [path |-> meta.mdPath,
                score |-> IF meta.createdAt # 0 THEN meta.createdAt
                          ELSE d.lastModified]
          ELSE [path |-> NoPath, score |-> 0]
     ELSE [path |-> inferCachedMarkdown(k, info), score |-> d.lastModified]

(* the loop of findCachedMarkdown from child k on *)
RECURSIVE findCachedFrom(_, _, _, _)
findCachedFrom(k, info, bestPath, bestScore) ==
  IF k > Len(cacheDirs) THEN bestPath
  ELSE LET c == cacheCandidate(k, info)
       IN IF c.path # NoPath /\ c.score > bestScore
          THEN findCachedFrom(k + 1, info, c.path, c.score)
          ELSE findCachedFrom(k + 1, info, bestPath, bestScore)

findCachedMarkdown(info) == findCachedFrom(1, info, NoPath, -1)

(* the clock: Date.now() and the files' modification times *)
Now ==
  IF cacheDirs = <<>> THEN 1
  ELSE 1 + CHOOSE m \in {cacheDirs[k].lastModified : k \in DOMAIN cacheDirs} :
             \A k \in DOMAIN cacheDirs : cacheDirs[k].lastModified <= m

NoCall ==
  [pc |-> "idle", info |-> CHOOSE i \in Infos : TRUE, force |-> FALSE,
   hit |-> NoPath, mdPath |-> NoPath, archive |-> <<>>, originSize |-> Num(0),
   dir |-> 0, remote |-> 0, extracted |-> FALSE, wrote |-> FALSE,
   outcome |-> "none"]

(* the call is over: what is kept of it is its fingerprint, whether its
   extraction completed, and how it ended *)
Ended(c, outcome) ==
  [NoCall EXCEPT !.info = c.info, !.extracted = c.extracted,
                 !.outcome = outcome]

(* parseItem up to the branch on cacheHit *)
CacheParseItem(info, force) ==
  /\ call.pc = "idle"
  /\ LET cacheHit == IF force THEN NoPath ELSE findCachedMarkdown(info)
     IN call' = [NoCall EXCEPT
                   !.pc = IF cacheHit # NoPath THEN "import" ELSE "remote",
                   !.info = info, !.force = force,
                   !.hit = cacheHit, !.mdPath = cacheHit]
  /\ UNCHANGED <<queueVars, lateVars, pauseVars, adding, zip, cacheDirs>>

(* the token check, createUploadUrl, uploadFile, pollBatchResult and
   downloadFile: the archive arrives, or one of them throws *)
CacheRemoteDone(ok, archive, originSize) ==
  /\ call.pc = "remote"
  /\ ok => Len(cacheDirs) < MaxDirs
  /\ call' = IF ok
             THEN [call EXCEPT !.pc = "extract", !.remote = 1,
                               !.archive = archive, !.originSize = originSize]
             ELSE Ended(call, "remoteFailed")
  /\ UNCHANGED <<queueVars, lateVars, pauseVars, adding, zip, cacheDirs>>

(* createTempDir and extractMarkdown; `by` remembers the fingerprint of the
   call the directory was made for *)
CacheExtractDone ==
  /\ call.pc = "extract"
  /\ Len(cacheDirs) < MaxDirs
  /\ LET k == Len(cacheDirs) + 1
         z == extractMarkdown([NoZip EXCEPT !.pc = "loop",
                                            !.entries = call.archive])
         d == [by |-> call.info] @@
              [NewDir(call.info.itemKey, Now) EXCEPT
                 !.files = z.files, !.mds = z.mdCandidates,
                 !.originSize = call.originSize,
                 !.aborted = z.pc = "unsafe"]
     IN /\ cacheDirs' = Append(cacheDirs, d)
        /\ call' = IF z.pc = "done"
                   THEN [call EXCEPT !.pc = "write", !.dir = k,
                                     !.extracted = TRUE,
                                     !.mdPath = [dir |-> k, rel |-> z.selected]]
                   ELSE Ended(call, "extractFailed")
  /\ UNCHANGED <<queueVars, lateVars, pauseVars, adding, zip>>

writeCacheMetadataWithoutModel(d, info, mdPath, now) ==
  [d EXCEPT
     !.files = @ \cup {<<"cache-info.json">>},
     !.lastModified = now,
     !.meta = [itemKey |-> info.itemKey,
               attachmentKey |-> info.attachmentKey,
               attachmentSize |-> info.attachmentSize,
               attachmentMtime |-> info.attachmentMtime,
               modelVersion |-> "",
               mdPath |-> mdPath, createdAt |-> now]]

(* what writeCacheMetadata leaves in the directory when the write succeeds *)
writeCacheMetadata(d, info, mdPath, now) ==
  [d EXCEPT
     !.files = @ \cup {<<"cache-info.json">>},
     !.lastModified = now,
     !.meta = [itemKey |-> info.itemKey,
               attachmentKey |-> info.attachmentKey,
               attachmentSize |-> info.attachmentSize,
               attachmentMtime |-> info.attachmentMtime,
               modelVersion |-> info.modelVersion,
               mdPath |-> mdPath, createdAt |-> now]]

(* writeCacheMetadata returned: the file is written, or the write threw and
   the catch swallowed it *)
CacheWriteDone(written) ==
  /\ call.pc = "write"
  /\ cacheDirs' = IF written
                  THEN [cacheDirs EXCEPT ![call.dir] =
                          writeCacheMetadata(@, call.info, call.mdPath, Now)]
                  ELSE cacheDirs
  /\ call' = [call EXCEPT !.pc = "import", !.wrote = written]
  /\ UNCHANGED <<queueVars, lateVars, pauseVars, adding, zip>>

(* the import stage ends: done, a throw of the import, or the cancel check *)
CacheImportDone(outcome) ==
  /\ call.pc = "import"
  /\ call' = Ended(call, outcome)
  /\ UNCHANGED <<queueVars, lateVars, pauseVars, adding, zip, cacheDirs>>

(* ------- the start/pause/stop queue of batch/batchWindow.ts ------------ *)
(* the items of the queue, in the order they were added *)
ItemOrder == <<"K1", "K2">>

Keys == {ItemOrder[i] : i \in DOMAIN ItemOrder}

LoopIds == 1..MaxLoops

(* addItem: a pending item; its PDF attachment is not looked up yet *)
NewItem == [status |-> "pending", pdfAttachment |-> FALSE]

(* a start() invocation: where it waits, its pending list, its position *)
NoLoop == [pc |-> "none", pending |-> <<>>, i |-> 1]

ActiveLoops == {l \in LoopIds : loops[l].pc # "none"}

Parsing == {l \in LoopIds : loops[l].pc = "parseItem"}

(* item.status = ... on the object the loop holds; an item that was removed
   from the map meanwhile is no longer shown *)
setStatus(its, key, status) ==
  IF key \in DOMAIN its THEN [its EXCEPT ![key].status = status] ELSE its

(* start(), after the for loop: the pending items are marked cancelled *)
markCancelled(its, cancel) ==
  IF cancel
  THEN [k \in DOMAIN its |->
          IF its[k].status = "pending"
          THEN [its[k] EXCEPT !.status = "cancelled"] ELSE its[k]]
  ELSE its

(* orderedKeys.filter(k => items.get(k)?.status === "pending") *)
pendingKeys(its, order) ==
  SelectSeq(order, LAMBDA k : k \in DOMAIN its /\ its[k].status = "pending")

(* the for loop of start() from the top of iteration i to its next await or
   to the end of start(): the loop's position and the items it leaves *)
RECURSIVE iterate(_, _, _, _, _)
iterate(pending, i, its, pause, cancel) ==
  IF i > Len(pending)
  THEN [loop |-> NoLoop, items |-> markCancelled(its, cancel), ended |-> TRUE]
  ELSE IF pause /\ ~cancel
  THEN [loop |-> [pc |-> "delay", pending |-> pending, i |-> i],
        items |-> its, ended |-> FALSE]
  ELSE IF cancel
  THEN [loop |-> NoLoop, items |-> markCancelled(its, cancel), ended |-> TRUE]
  ELSE IF pending[i] \notin DOMAIN its
  THEN iterate(pending, i + 1, its, pause, cancel)
  ELSE IF ~its[pending[i]].pdfAttachment
  THEN [loop |-> [pc |-> "getPdf", pending |-> pending, i |-> i],
        items |-> its, ended |-> FALSE]
  ELSE [loop |-> [pc |-> "parseItem", pending |-> pending, i |-> i],
        items |-> its, ended |-> FALSE]

(* the start button (enabled while the queue is idle) and start() up to its
   first await *)
PauseQueueStart(l) ==
  /\ state = "idle"
  /\ orderedKeys # <<>>
  /\ l \in LoopIds
  /\ loops[l] = NoLoop
  /\ \A m \in LoopIds : m < l => loops[m] # NoLoop
  /\ LET r == iterate(pendingKeys(items, orderedKeys), 1, items, FALSE, FALSE)
     IN /\ loops' = [loops EXCEPT ![l] = r.loop]
        /\ items' = r.items
        /\ state' = IF r.ended THEN "idle" ELSE "running"
  /\ cancelFlag' = FALSE
  /\ pauseFlag' = FALSE
  /\ UNCHANGED <<queueVars, lateVars, fileVars, adding, orderedKeys>>

(* a resumption of the loop at iteration i, with the items as its left them *)
Resume(l, i, its) ==
  LET r == iterate(loops[l].pending, i, its, pauseFlag, cancelFlag)
  IN /\ loops' = [loops EXCEPT ![l] = r.loop]
     /\ items' = r.items
     /\ state' = IF r.ended THEN "idle" ELSE state
     /\ UNCHANGED <<queueVars, lateVars, fileVars, adding, orderedKeys, cancelFlag,
                    pauseFlag>>

(* Zotero.Promise.delay(200) of the pause wait has elapsed *)
DelayDone(l) ==
  /\ l \in LoopIds
  /\ loops[l].pc = "delay"
  /\ Resume(l, loops[l].i, items)

(* getPdfAttachmentForItem returned: no PDF skips the item, a PDF starts
   parseItem *)
GetPdfDone(l, pdf) ==
  /\ l \in LoopIds
  /\ loops[l].pc = "getPdf"
  /\ IF pdf
     THEN /\ loops' = [loops EXCEPT ![l].pc = "parseItem"]
          /\ UNCHANGED <<queueVars, lateVars, fileVars, adding, items, orderedKeys,
                         state, cancelFlag, pauseFlag>>
     ELSE Resume(l, loops[l].i + 1,
                 setStatus(items, loops[l].pending[loops[l].i], "skipped"))

(* the stages a parseItem invocation reports through onStatusChange *)
ItemStages == {"uploading", "importing"}

ParseReports(l, status) ==
  /\ l \in LoopIds
  /\ loops[l].pc = "parseItem"
  /\ items' = setStatus(items, loops[l].pending[loops[l].i], status)
  /\ items' # items
  /\ UNCHANGED <<queueVars, lateVars, fileVars, adding, orderedKeys, state,
                 cancelFlag, pauseFlag, loops>>

(* parseItem returned, or threw (the cancellation error needs shouldCancel) *)
ParseEnds(l, outcome) ==
  /\ l \in LoopIds
  /\ loops[l].pc = "parseItem"
  /\ outcome \in {"returned", "threw", "cancelled"}
  /\ outcome = "cancelled" => cancelFlag
  /\ Resume(l, loops[l].i + 1,
            setStatus(items, loops[l].pending[loops[l].i],
                      IF outcome = "returned" THEN "done" ELSE "error"))

Pause ==
  /\ state = "running"
  /\ pauseFlag' = TRUE
  /\ state' = "paused"
  /\ UNCHANGED <<queueVars, lateVars, fileVars, adding, items, orderedKeys,
                 cancelFlag, loops>>

ResumeQueue ==
  /\ state = "paused"
  /\ pauseFlag' = FALSE
  /\ state' = "running"
  /\ UNCHANGED <<queueVars, lateVars, fileVars, adding, items, orderedKeys,
                 cancelFlag, loops>>

(* the stop button (enabled unless the queue is idle) *)
Stop ==
  /\ state # "idle"
  /\ cancelFlag' = TRUE
  /\ pauseFlag' = FALSE
  /\ state' = IF state = "paused" THEN "idle" ELSE state
  /\ UNCHANGED <<queueVars, lateVars, fileVars, adding, items, orderedKeys, loops>>

Clear ==
  /\ state # "running"
  /\ orderedKeys # <<>>
  /\ items' = <<>>
  /\ orderedKeys' = <<>>
  /\ UNCHANGED <<queueVars, lateVars, fileVars, adding, state, cancelFlag,
                 pauseFlag, loops>>

Completed == {"done", "skipped", "cancelled"}

RemoveCompleted ==
  /\ \E k \in DOMAIN items : items[k].status \in Completed
  /\ LET keep == {k \in DOMAIN items : items[k].status \notin Completed}
     IN /\ items' = [k \in keep |-> items[k]]
        /\ orderedKeys' = SelectSeq(orderedKeys, LAMBDA k : k \in keep)
  /\ UNCHANGED <<queueVars, lateVars, fileVars, adding, state, cancelFlag,
                 pauseFlag, loops>>

RetryFailed ==
  /\ \E k \in DOMAIN items : items[k].status = "error"
  /\ items' = [k \in DOMAIN items |->
                 IF items[k].status = "error"
                 THEN [items[k] EXCEPT !.status = "pending"] ELSE items[k]]
  /\ UNCHANGED <<queueVars, lateVars, fileVars, adding, orderedKeys, state,
                 cancelFlag, pauseFlag, loops>>

(* ------------------ adding tasks to the window's list ------------------ *)
(* the parent items that can be selected or scanned *)
Parents == {"P1", "P2"}

AddIds == 1..MaxAdds

(* createBatchTaskFromCandidate: a queued task of the parent item *)
createBatchTaskFromCandidate(parent) == ("parentItemID" :> parent) @@ NewTask

NoSummary == [added |-> 0, skippedNoPdf |-> 0, skippedParsed |-> 0,
              skippedDuplicate |-> 0, skippedInvalid |-> 0]

(* an onAddSelected or importCandidatesToQueue invocation: where it waits,
   its set of known parents, the parents still to look at, the tasks
   detected so far, its summary *)
NoAdd ==
  [pc |-> "none", existingParentIDs |-> {}, todo |-> <<>>, found |-> <<>>,
   summary |-> NoSummary]

(* the selections and the candidate lists: parents, each at most once *)
ParentLists ==
  {s \in SeqsUpTo(Parents, Cardinality(Parents)) : s # <<>> /\ NoRepeat(s)}

parentIDs(ts) == {ts[i].parentItemID : i \in DOMAIN ts}

(* detectBatchTasksFromSelection: the loop from its top to the next await
   on getPdfAttachmentForItem, or to the return *)
RECURSIVE detectLoop(_)
detectLoop(a) ==
  IF a.todo = <<>> THEN [a EXCEPT !.pc = "return"]
  ELSE IF Head(a.todo) \in a.existingParentIDs
  THEN detectLoop([a EXCEPT !.todo = Tail(@),
                            !.summary.skippedDuplicate = @ + 1])
  ELSE [a EXCEPT !.pc = "getPdf"]

(* after the await: the parent is skipped or its task is collected *)
detectFound(a, pdf, parsed) ==
  LET parent == Head(a.todo)
      rest == [a EXCEPT !.todo = Tail(@)]
  IN IF ~pdf THEN [rest EXCEPT !.summary.skippedNoPdf = @ + 1]
     ELSE IF parsed THEN [rest EXCEPT !.summary.skippedParsed = @ + 1]
     ELSE [rest EXCEPT !.found = Append(@, createBatchTaskFromCandidate(parent)),
                       !.existingParentIDs = @ \cup {parent},
                       !.summary.added = @ + 1]

(* onAddSelected once detectBatchTasksFromSelection has returned:
   tasks.push(...result.tasks) *)
AddReturns(id, a) ==
  IF a.pc = "return"
  THEN /\ tasks' = tasks \o a.found
       /\ adding' = [adding EXCEPT ![id] = [a EXCEPT !.pc = "done"]]
  ELSE /\ tasks' = tasks
       /\ adding' = [adding EXCEPT ![id] = a]

(* the add-selected button: onAddSelected up to its first await *)
OnAddSelected(id, selected) ==
  /\ id \in AddIds
  /\ adding[id] = NoAdd
  /\ \A m \in AddIds : m < id => adding[m] # NoAdd
  /\ AddReturns(id, detectLoop([NoAdd EXCEPT
                                  !.existingParentIDs = parentIDs(tasks),
                                  !.todo = selected]))
  /\ UNCHANGED <<runningCount, stopRequested, sessionID, concurrencyPref, run,
                 started, retried, pipe, fileVars, pauseVars, lateVars>>

(* getPdfAttachmentForItem returned to detectBatchTasksFromSelection *)
AddGetPdfDone(id, pdf, parsed) ==
  /\ id \in AddIds
  /\ adding[id].pc = "getPdf"
  /\ AddReturns(id, detectLoop(detectFound(adding[id], pdf, parsed)))
  /\ UNCHANGED <<runningCount, stopRequested, sessionID, concurrencyPref, run,
                 started, retried, pipe, fileVars, pauseVars, lateVars>>

(* importCandidatesToQueue: the for loop over one chunk, pushing as it goes *)
RECURSIVE importChunk(_, _, _, _)
importChunk(a, ts, n, invalid) ==
  IF n = 0 \/ a.todo = <<>> THEN [add |-> a, tasks |-> ts]
  ELSE LET parent == Head(a.todo)
           rest == [a EXCEPT !.todo = Tail(@)]
       IN IF parent \in a.existingParentIDs
          THEN importChunk([rest EXCEPT !.summary.skippedDuplicate = @ + 1],
                           ts, n - 1, invalid)
          ELSE IF parent \in invalid
          THEN importChunk([rest EXCEPT !.summary.skippedInvalid = @ + 1],
                           ts, n - 1, invalid)
          ELSE importChunk([rest EXCEPT
                              !.existingParentIDs = @ \cup {parent},
                              !.summary.added = @ + 1],
                           Append(ts, createBatchTaskFromCandidate(parent)),
                           n - 1, invalid)

(* the import buttons of the statistics window: importCandidatesToQueue up
   to its first await *)
ImportCandidatesToQueue(id, candidates) ==
  /\ id \in AddIds
  /\ adding[id] = NoAdd
  /\ \A m \in AddIds : m < id => adding[m] # NoAdd
  /\ adding' = [adding EXCEPT ![id] =
                  [NoAdd EXCEPT !.pc = "getAsync",
                                !.existingParentIDs = parentIDs(tasks),
                                !.todo = candidates]]
  /\ UNCHANGED <<queueVars, lateVars, fileVars, pauseVars>>

(* Zotero.Items.getAsync returned: the chunk is gone through *)
ImportGetAsyncDone(id, invalid) ==
  /\ id \in AddIds
  /\ adding[id].pc = "getAsync"
  /\ LET r == importChunk(adding[id], tasks, IMPORT_CHUNK_SIZE, invalid)
     IN /\ tasks' = r.tasks
        /\ adding' = [adding EXCEPT ![id] = [r.add EXCEPT !.pc = "delay"]]
  /\ UNCHANGED <<runningCount, stopRequested, sessionID, concurrencyPref, run,
                 started, retried, pipe, fileVars, pauseVars, lateVars>>

(* Zotero.Promise.delay(0) returned: the next chunk, or the return *)
ImportDelayDone(id) ==
  /\ id \in AddIds
  /\ adding[id].pc = "delay"
  /\ adding' = [adding EXCEPT ![id].pc =
                  IF adding[id].todo = <<>> THEN "done" ELSE "getAsync"]
  /\ UNCHANGED <<queueVars, lateVars, fileVars, pauseVars>>

(* ----------------- onStartSelected (batchParse/window.ts) -------------- *)
(* the queue and the task list as one record, for a handler that calls
   startTask several times *)
QueueNow ==
  [tasks |-> tasks, run |-> run, runningCount |-> runningCount,
   sessionID |-> sessionID, stopRequested |-> stopRequested]

(* startTask(task, scope) on q *)
startTask(q, t, scope) ==
  IF q.tasks[t].status \in {"running", "success"} THEN q
  ELSE LET ts == [q.tasks EXCEPT ![t] = retry(q.tasks[t])]
           fresh == q.sessionID = 0 \/ q.stopRequested
           sid == IF fresh THEN q.sessionID + 1 ELSE q.sessionID
           rc == IF fresh THEN 0 ELSE q.runningCount
           p == pump(ts, q.run, rc, scope, sid, sid, FALSE)
       IN [tasks |-> p.tasks, run |-> p.run, runningCount |-> p.runningCount,
           sessionID |-> sid, stopRequested |-> FALSE]

(* for (const task of selectedTasks) queue.startTask(task, selectedTasks),
   from task number t on *)
RECURSIVE startEach(_, _, _)
startEach(q, t, selectedTasks) ==
  IF t > Len(q.tasks) THEN q
  ELSE IF t \in selectedTasks
  THEN startEach(startTask(q, t, selectedTasks), t + 1, selectedTasks)
  ELSE startEach(q, t + 1, selectedTasks)

(* the selection sel of the table, in the order of the list *)
OnStartSelected(sel) ==
  /\ SessionRoom
  /\ LET selectedTasks ==
           {t \in sel : tasks[t].status \in {"queued", "failed", "stopped"}}
         q == startEach(QueueNow, 1, selectedTasks)
     IN /\ selectedTasks # {}
        /\ tasks' = q.tasks
        /\ run' = q.run
        /\ runningCount' = q.runningCount
        /\ sessionID' = q.sessionID
        /\ stopRequested' = q.stopRequested
        /\ retried' = StillRetried(q.tasks,
                        {t \in selectedTasks :
                           tasks[t].status \in {"failed", "stopped"}})
  /\ UNCHANGED <<concurrencyPref, otherVars, started, pipe>>

(* --------------- the lookup over a populated cache directory ----------- *)
(* the fingerprints the directories found at startup were made for *)
StoredInfos == {f \in Infos : f.attachmentMtime = Num(1)}

(* a directory an earlier parseItem call left at time t: full.md extracted,
   cache-info.json written or not *)
LeftDir(k, f, t, written) ==
  LET d == [by |-> f] @@
           [NewDir(f.itemKey, t) EXCEPT !.files = {<<"full.md">>},
                                        !.mds = <<<<"full.md">>>>]
  IN IF written
     THEN writeCacheMetadata(d, f, [dir |-> k, rel |-> <<"full.md">>], t)
     ELSE d

(* the user deletes the Markdown file of child directory k *)
MarkdownRemoved(k) ==
  /\ k \in DOMAIN cacheDirs
  /\ <<"full.md">> \in cacheDirs[k].files
  /\ cacheDirs' = [cacheDirs EXCEPT
                     ![k].files = @ \ {<<"full.md">>},
                     ![k].mds = SelectSeq(@, LAMBDA m : m # <<"full.md">>)]
  /\ UNCHANGED <<queueVars, lateVars, pauseVars, adding, zip, call>>

(* ------------------- pollBatchResult with its clock -------------------- *)
(* Time is counted in ticks; poll_timeout_ms is 1..MaxPolls ticks.  The
   correlation id and the file name of this job are "D1" and "a.pdf".      *)
DataId == "D1"

FileName == "a.pdf"

ErrRequest == <<"request failed">>

(* the elements of data.extract_result; a response lists at most two *)
ResultEntries ==
  [data_id : {"D1", "D2"}, file_name : {"a.pdf", "b.pdf"},
   state : {"done", "pending", "running"},
   full_zip_url : {TRUE}, err_msg : {<<>>}]
  \cup [data_id : {"D1", "D2"}, file_name : {"a.pdf", "b.pdf"},
        state : {"done"}, full_zip_url : {FALSE}, err_msg : {<<>>}]
  \cup [data_id : {"D1", "D2"}, file_name : {"a.pdf", "b.pdf"},
        state : {"failed"}, full_zip_url : {FALSE},
        err_msg : {<<"corrupt pdf">>}]

(* what fetchJson resolves or rejects with: the HTTP outcome, the envelope's
   code and data.extract_result *)
StatusResponses ==
  {[http |-> FALSE, code |-> 0, extract_result |-> <<>>],
   [http |-> TRUE, code |-> 1, extract_result |-> <<>>]}
  \cup {[http |-> TRUE, code |-> 0, extract_result |-> r] :
          r \in SeqsUpTo(ResultEntries, 2)}

NoResult == [data_id |-> "", file_name |-> "", state |-> "",
             full_zip_url |-> FALSE, err_msg |-> <<>>]

NoResponse == [http |-> FALSE, code |-> 0, extract_result |-> <<>>]

(* extract_result?.find(entry => entry.data_id === dataId ||
   entry.file_name === fileName) || extract_result?.[0] *)
selectResult(list, dataId, fileName) ==
  LET match(e) == e.data_id = dataId \/ e.file_name = fileName IN
    IF \E i \in DOMAIN list : match(list[i])
    THEN list[CHOOSE i \in DOMAIN list :
                /\ match(list[i])
                /\ \A j \in 1..(i - 1) : ~match(list[j])]
    ELSE IF list = <<>> THEN NoResult ELSE list[1]

NoPoll ==
  [pc |-> "idle", timeout |-> 0, elapsed |-> 0, cancel |-> FALSE,
   resp |-> NoResponse, result |-> NoResult, error |-> <<>>]

pollThrows(q, error) == [q EXCEPT !.pc = "thrown", !.error = error]

pollLoopHeadNoTimeout(q) ==
  IF q.cancel THEN pollThrows(q, CancelError)
  ELSE [q EXCEPT !.pc = "request"]

(* lines 1492-1496: the while condition, the shouldCancel test, the request;
   the throw after the loop *)
pollLoopHead(q) ==
  IF ~(q.elapsed < q.timeout) THEN pollThrows(q, ErrTimeout)
  ELSE IF q.cancel THEN pollThrows(q, CancelError)
  ELSE [q EXCEPT !.pc = "request"]

(* lines 1496-1555: the response, up to the return, the throw or the sleep *)
pollAfterRequest(q, resp) ==
  LET result == selectResult(resp.extract_result, DataId, FileName)
      r == [q EXCEPT !.resp = resp, !.result = result]
  IN IF ~resp.http THEN pollThrows([q EXCEPT !.resp = resp], ErrRequest)
     ELSE IF resp.code # 0 THEN pollThrows([q EXCEPT !.resp = resp], ErrQuery)
     ELSE IF result = NoResult THEN pollThrows(r, ErrQuery)
     ELSE IF result.state = "done"
     THEN IF ~result.full_zip_url THEN pollThrows(r, ErrNoUrl)
          ELSE [r EXCEPT !.pc = "returned"]
     ELSE IF result.state = "failed"
     THEN pollThrows(r, ErrRemote(result.err_msg))
     ELSE [r EXCEPT !.pc = "sleep"]

(* pollBatchResult called: start = Date.now(), the first loop head *)
PollBatchResult(timeout) ==
  /\ poll.pc \in Idle \cup {"idle"}
  /\ poll' = pollLoopHead([NoPoll EXCEPT !.timeout = timeout])
  /\ UNCHANGED <<queueVars, fileVars, pauseVars, adding, imp, auto, img>>

(* the status request resolved or rejected, d ticks after it was sent *)
PollRequestDone(resp, d) ==
  /\ poll.pc = "request"
  /\ poll' = pollAfterRequest([poll EXCEPT !.elapsed = Min(@ + d, poll.timeout)],
                              resp)
  /\ UNCHANGED <<queueVars, fileVars, pauseVars, adding, imp, auto, img>>

(* Zotero.Promise.delay(poll_interval_ms) resolved, d ticks later *)
PollSleepDone(d) ==
  /\ poll.pc = "sleep"
  /\ poll' = pollLoopHead([poll EXCEPT !.elapsed = Min(@ + d, poll.timeout)])
  /\ UNCHANGED <<queueVars, fileVars, pauseVars, adding, imp, auto, img>>

(* the caller's shouldCancel starts to return true: a stop was requested *)
PollCancelRequested ==
  /\ poll.pc \in {"request", "sleep"}
  /\ ~poll.cancel
  /\ poll' = [poll EXCEPT !.cancel = TRUE]
  /\ UNCHANGED <<queueVars, fileVars, pauseVars, adding, imp, auto, img>>

(* ------------ batchImportImages with reads and imports failing --------- *)
(* importMarkdownToNote from its image stage to parseItem's return, as
   parseSelectedItem runs it (no shouldCancel).  Images are numbered in the
   order of imageTasks; their src are distinct.                            *)
ReadOutcomes == {"data", "empty", "error"}

NoImp ==
  [reads |-> <<>>, valid |-> <<>>, k |-> 0, importOk |-> {}, srcToKey |-> {},
   failed |-> <<>>, successCount |-> 0, totalCount |-> 0,
   remainingImages |-> 0] @@ NoPipe

(* the indices 1..n in order *)
Indices(n) == [i \in 1..n |-> i]

batchImportResultOfValid(p) ==
  [p EXCEPT !.successCount = Cardinality(p.srcToKey),
            !.totalCount = p.images,
            !.failed = SelectSeq(p.valid, LAMBDA i : i \notin p.srcToKey)]

(* batchImportImages lines 282-296: the counts and the failed list *)
batchImportResult(p) ==
  [p EXCEPT !.successCount = Cardinality(p.srcToKey),
            !.totalCount = p.images,
            !.failed = SelectSeq(Indices(p.images),
                                 LAMBDA i : i \notin p.srcToKey)]

(* importMarkdownToNote lines 1364-1381 *)
afterBatchImport(p, evs) ==
  Goes([p EXCEPT !.pc = "impTick3", !.remainingImages = Len(p.failed)],
       evs \o updateProgress(p, imageProgressEnd(p)))

(* readImagesParallel resolved (the images fit in one chunk of 8); then
   createAttachments lines 172-179 *)
readsDone(p, reads) ==
  LET valid == SelectSeq(Indices(p.images), LAMBDA i : reads[i] = "data")
      q == [p EXCEPT !.reads = reads, !.valid = valid, !.k = 0]
      evs == readProgress(p, 1, p.images)
               \o imageProgress(p, 0, p.images, "importing")
  IN IF valid = <<>> THEN afterBatchImport(batchImportResult(q), evs)
     ELSE Goes([q EXCEPT !.pc = "imgImport"], evs)

(* createAttachments lines 185-204: one importEmbeddedImage resolved or
   rejected; after the last one, the return *)
attachmentDone(p, ok) ==
  LET i == p.valid[p.k + 1]
      total == Len(p.valid)
      q == [p EXCEPT !.k = p.k + 1,
                     !.importOk = IF ok THEN @ \cup {i} ELSE @,
                     !.srcToKey = IF ok THEN @ \cup {i} ELSE @]
      evs == imageProgress(p, p.k + 1, total, "importing")
  IN IF q.k < total THEN Goes(q, evs)
     ELSE afterBatchImport(batchImportResult(q), evs)

ImpApply(log, r) ==
  /\ imp' = [r.pipe EXCEPT !.log = log \o Stages(r.events)]
  /\ UNCHANGED <<queueVars, fileVars, pauseVars, adding, auto, poll, img>>

(* importMarkdownToNote reaches line 1338 with n image tasks *)
ImportImages(n, hit) ==
  /\ imp.pc \in Idle \cup {"idle"}
  /\ ImpApply(<<>>, afterTick2([NoImp EXCEPT !.pc = "impTick2", !.caller = "single",
                                       !.hit = hit, !.cached = TRUE,
                                       !.notes = 1],
                         n, FALSE))

ImagesRead(reads) ==
  /\ imp.pc = "imgRead"
  /\ Len(reads) = imp.images
  /\ ImpApply(imp.log, readsDone(imp, reads))

AttachmentDone(ok) ==
  /\ imp.pc = "imgImport"
  /\ ImpApply(imp.log, attachmentDone(imp, ok))

ImportTail ==
  \/ /\ imp.pc = "impTick3"
     /\ ImpApply(imp.log, afterTick3(imp, FALSE))
  \/ /\ imp.pc = "impSave"
     /\ \E ok \in BOOLEAN : ImpApply(imp.log, afterSave(imp, ok, FALSE))
  \/ /\ imp.pc = "impTick4"
     /\ ImpApply(imp.log, afterTick4(imp))

(* ------------------------------ autoParse.ts --------------------------- *)
(* The library items a notification can name: two PDFs under P1, one under
   P2, one under P3, a PDF without a parent and a snapshot under P2.       *)
AutoItems == {"A1", "A2", "A3", "A4", "A5", "A6"}

AutoParents == Parents \cup {"P3"}

NoParent == "none"

parentItem(a) ==
  CASE a \in {"A1", "A2"} -> "P1"
    [] a \in {"A3", "A5"} -> "P2"
    [] a = "A6" -> "P3"
    [] OTHER -> NoParent

isPDFAttachment(a) == a # "A5"

NotifyEvents == {"add", "modify", "delete"}

(* module state of autoParse.ts, the position of the processQueue call in
   flight (items, the index i of the item whose parseItem call is awaited,
   0 when none), the parents that have a parsed note, the parents
   parseItem was invoked for in the current processing run, and the number
   of attachments the drain has moved into items in that run               *)
NoAuto ==
  [registered |-> TRUE, queue |-> <<>>, queuedParents |-> {},
   processing |-> FALSE, items |-> <<>>, i |-> 0, notes |-> {},
   invoked |-> <<>>, drained |-> 0]

hasExistingParsedNote(a, p) == p \in a.notes

enqueueIfEligibleNoDedupe(a, item) ==
  IF ~isPDFAttachment(item) THEN a
  ELSE IF parentItem(item) = NoParent THEN a
  ELSE IF hasExistingParsedNote(a, parentItem(item)) THEN a
  ELSE [a EXCEPT !.queuedParents = @ \cup {parentItem(item)},
                 !.queue = Append(@, item)]

enqueueIfEligible(a, item) ==
  IF ~isPDFAttachment(item) THEN a
  ELSE IF parentItem(item) = NoParent THEN a
  ELSE IF parentItem(item) \in a.queuedParents THEN a
  ELSE IF hasExistingParsedNote(a, parentItem(item)) THEN a
  ELSE [a EXCEPT !.queuedParents = @ \cup {parentItem(item)},
                 !.queue = Append(@, item)]

RECURSIVE enqueueAll(_, _)
enqueueAll(a, ids) ==
  IF ids = <<>> THEN a
  ELSE enqueueAll(enqueueIfEligible(a, Head(ids)), Tail(ids))

(* processQueue's loop from the item after a.i up to the next parseItem
   call, or through the end of the function *)
RECURSIVE runLoop(_)
runLoop(a) ==
  IF a.i >= Len(a.items)
    THEN [a EXCEPT !.i = 0, !.items = <<>>, !.queuedParents = {},
                   !.processing = FALSE, !.drained = 0]
  ELSE LET item == a.items[a.i + 1]
           b == [a EXCEPT !.i = a.i + 1]
       IN IF parentItem(item) = NoParent THEN runLoop(b)
          ELSE IF hasExistingParsedNote(a, parentItem(item)) THEN runLoop(b)
          ELSE [b EXCEPT !.invoked = Append(@, parentItem(item))]

(* processQueue up to its first await *)
processQueue(a) ==
  IF a.processing \/ a.queue = <<>> THEN a
  ELSE runLoop([a EXCEPT !.processing = TRUE, !.items = a.queue,
                         !.queue = <<>>, !.i = 0, !.invoked = <<>>])

(* the observer's notify *)
notify(a, event, type, pref, ids) ==
  IF type # "item" THEN a
  ELSE IF event \notin {"add", "modify"} THEN a
  ELSE IF ~pref THEN a
  ELSE LET b == enqueueAll(a, ids)
       IN IF b.queue # <<>> /\ ~b.processing THEN processQueue(b) ELSE b

AutoFrame == UNCHANGED <<queueVars, fileVars, pauseVars, adding, imp, poll, img>>

Notify(event, type, pref, ids) ==
  /\ auto.registered
  /\ auto' = notify(auto, event, type, pref, ids)
  /\ AutoFrame

(* the awaited parseItem call returns or throws, having tagged a note for
   the parent or not; processQueue goes on: the drain, then the loop *)
AutoParseItemEndsNoDrain(noted) ==
  /\ auto.i > 0
  /\ LET a == [auto EXCEPT
                 !.notes = IF noted THEN @ \cup {parentItem(auto.items[auto.i])}
                           ELSE @]
     IN auto' = runLoop(a)
  /\ AutoFrame

AutoParseItemEnds(noted) ==
  /\ auto.i > 0
  /\ LET a == [auto EXCEPT
                 !.notes = IF noted THEN @ \cup {parentItem(auto.items[auto.i])}
                           ELSE @,
                 !.items = @ \o auto.queue,
                 !.drained = @ + Len(auto.queue),
                 !.queue = <<>>]
     IN auto' = runLoop(a)
  /\ AutoFrame

(* a parsed note appears (a manual or batch parse) or is deleted *)
ParsedNoteChanges(p) ==
  /\ auto' = [auto EXCEPT !.notes = IF p \in @ THEN @ \ {p} ELSE @ \cup {p}]
  /\ AutoFrame

(* onShutdown *)
UnregisterAutoParseObserver ==
  /\ auto.registered
  /\ auto' = [auto EXCEPT !.registered = FALSE, !.queue = <<>>,
                          !.queuedParents = {}, !.processing = FALSE]
  /\ AutoFrame

(* ------------- batchImportImages, read by read (imageImporter.ts) ------ *)
(* The tasks are numbered 1..total in the order of the list.  `i` is the
   loop index of readImagesParallel (0-based), inFlight the IOUtils.read
   calls not yet settled, data the tasks that got non-empty data,
   importing the importEmbeddedImage calls not yet settled, k the number
   of valid tasks createAttachments has finished with.                    *)
NoImg ==
  [pc |-> "idle", total |-> 0, concurrency |-> IMAGE_CONCURRENCY, i |-> 0,
   inFlight |-> {}, data |-> {}, done |-> 0, importing |-> {}, k |-> 0,
   srcToKey |-> {}]

(* the k-th smallest element of a set of task numbers *)
Nth(S, k) == CHOOSE x \in S : Cardinality({y \in S : y < x}) = k - 1

(* createAttachments from its start or after an import settled: the next
   valid task's importEmbeddedImage call, or the return *)
nextAttachment(g) ==
  IF g.k >= Cardinality(g.data)
  THEN [g EXCEPT !.pc = "returned", !.importing = {}]
  ELSE [g EXCEPT !.pc = "importing", !.importing = {Nth(g.data, g.k + 1)}]

readBatchUnchunked(g) ==
  IF g.i < g.total
  THEN [g EXCEPT !.pc = "reading", !.inFlight = (g.i + 1)..g.total]
  ELSE nextAttachment([g EXCEPT !.k = 0])

(* readImagesParallel's for loop at index g.i: the reads of the next batch
   start, or the loop is over and createAttachments begins *)
readBatch(g) ==
  IF g.i < g.total
  THEN [g EXCEPT !.pc = "reading",
                 !.inFlight = (g.i + 1)..Min(g.i + g.concurrency, g.total)]
  ELSE nextAttachment([g EXCEPT !.k = 0])

ImgFrame == UNCHANGED <<queueVars, fileVars, pauseVars, adding, imp, auto, poll>>

(* batchImportImages(noteItem, tasks, {concurrency: 8, ...}) with n tasks *)
BatchImportImages(n) ==
  /\ img.pc \in {"idle", "returned"}
  /\ img' = readBatch([NoImg EXCEPT !.total = n])
  /\ ImgFrame

(* one IOUtils.read settles, with data, with no data, or with an error;
   when it is the last of its batch, Promise.all resolves and the loop
   goes on *)
ReadSettles(t, hasData) ==
  /\ img.pc = "reading"
  /\ t \in img.inFlight
  /\ LET g == [img EXCEPT !.inFlight = @ \ {t},
                          !.data = IF hasData THEN @ \cup {t} ELSE @,
                          !.done = @ + 1]
     IN img' = IF g.inFlight # {} THEN g
               ELSE readBatch([g EXCEPT !.i = @ + g.concurrency])
  /\ ImgFrame

(* the importEmbeddedImage call in flight resolves or rejects *)
AttachmentSettles(ok) ==
  /\ img.pc = "importing"
  /\ \E t \in img.importing :
       img' = nextAttachment([img EXCEPT
                                !.srcToKey = IF ok THEN @ \cup {t} ELSE @,
                                !.k = @ + 1])
  /\ ImgFrame

(* --------------------------- specifications ---------------------------- *)
(* the variables outside the batch queue, at rest *)
FilesIdle ==
  /\ zip = NoZip
  /\ cacheDirs = <<>>
  /\ call = NoCall

PauseIdle ==
  /\ items = <<>>
  /\ orderedKeys = <<>>
  /\ state = "idle"
  /\ cancelFlag = FALSE
  /\ pauseFlag = FALSE
  /\ loops = [l \in LoopIds |-> NoLoop]

LateIdle ==
  /\ imp = NoImp
  /\ auto = NoAuto
  /\ poll = NoPoll
  /\ img = NoImg

OthersIdle ==
  /\ FilesIdle
  /\ PauseIdle
  /\ adding = [id \in AddIds |-> NoAdd]
  /\ LateIdle

Init ==
  /\ tasks = [i \in 1..NTasks |-> NewTask]
  /\ runningCount = 0
  /\ stopRequested = FALSE
  /\ sessionID = 0
  /\ concurrencyPref \in PrefValues
  /\ run = [i \in 1..NTasks |-> NoRun]
  /\ started = FALSE
  /\ retried = {}
  /\ pipe = NoPipe
  /\ OthersIdle

Next ==
  \/ Start
  \/ \E t \in Ids : StartTask(t)
  \/ StopAll
  \/ \E t \in Ids : StopTask(t)
  \/ \E t \in Ids : Retry(t)
  \/ Reset
  \/ \E t \in Ids : ParseItemReports(t)
  \/ \E t \in Ids : ParseItemReturns(t)
  \/ \E t \in Ids : ParseItemCancelled(t)
  \/ \E t \in Ids : ParseItemFails(t)

Spec == Init /\ [][Next]_vars

(* start operations and pipeline events only; every parseItem invocation
   eventually returns or throws *)
NextLive ==
  \/ StartRecorded
  \/ \E t \in Ids : StartTask(t)
  \/ \E t \in Ids : ParseItemReports(t)
  \/ \E t \in Ids : ParseItemReturns(t)
  \/ \E t \in Ids : ParseItemFails(t)

SpecLive ==
  /\ Init
  /\ [][NextLive]_vars
  /\ \A t \in 1..NTasks : WF_vars(ParseItemReturns(t) \/ ParseItemFails(t))

(* one task, one parseItem invocation at a time, followed in detail *)
InitPipe ==
  /\ tasks = <<NewTask>>
  /\ runningCount = 0
  /\ stopRequested = FALSE
  /\ sessionID = 0
  /\ concurrencyPref = NaN
  /\ run = <<NoRun>>
  /\ started = FALSE
  /\ retried = {}
  /\ \E c, k \in BOOLEAN : pipe = [NoPipe EXCEPT !.cached = c, !.token = k]
  /\ OthersIdle

NextPipe ==
  \/ Start
  \/ \E t \in Ids : StartTask(t)
  \/ StopAll
  \/ \E t \in Ids : StopTask(t)
  \/ Reset
  \/ \E t \in Ids : BatchParseItem(t)
  \/ \E force \in BOOLEAN : ParseSelectedItem(force)
  \/ CacheLookupDone
  \/ SlotDone
  \/ UploadDone
  \/ PollDone
  \/ SleepDone
  \/ DownloadDone
  \/ ExtractDone
  \/ WriteCacheDone
  \/ CreateNoteDone
  \/ ImportStep

SpecPipe == InitPipe /\ [][NextPipe]_vars

(* the batch queue at rest, for the specifications that do not run it *)
QueueIdle ==
  /\ tasks = <<>>
  /\ runningCount = 0
  /\ stopRequested = FALSE
  /\ sessionID = 0
  /\ concurrencyPref = NaN
  /\ run = <<>>
  /\ started = FALSE
  /\ retried = {}
  /\ pipe = NoPipe

(* extractMarkdown over every archive of at most MaxEntries entries *)
InitZip ==
  /\ QueueIdle
  /\ LateIdle
  /\ \E a \in Archives : zip = [NoZip EXCEPT !.pc = "loop", !.entries = a]
  /\ cacheDirs = <<>>
  /\ call = NoCall
  /\ PauseIdle
  /\ adding = [id \in AddIds |-> NoAdd]

NextZip == ExtractEntry \/ ExtractFinish

SpecZip == InitZip /\ [][NextZip]_vars

(* parseItem calls, one after the other, over the cache base directory *)
InitCache ==
  /\ QueueIdle
  /\ OthersIdle

NextCache ==
  \/ \E info \in Infos, force \in BOOLEAN : CacheParseItem(info, force)
  \/ \E ok \in BOOLEAN, archive \in CacheArchives :
       \E originSize \in IF \E i \in DOMAIN archive : archive[i] = <<"x_origin.pdf">>
                         THEN {Num(1), Num(2)} ELSE {Num(0)} :
         CacheRemoteDone(ok, archive, originSize)
  \/ CacheExtractDone
  \/ \E written \in BOOLEAN : CacheWriteDone(written)
  \/ \E outcome \in {"done", "importFailed", "importCancelled"} :
       CacheImportDone(outcome)

SpecCache == InitCache /\ [][NextCache]_vars

(* the start/pause/stop queue over MaxItems items added from a selection *)
InitPause ==
  /\ QueueIdle
  /\ LateIdle
  /\ FilesIdle
  /\ adding = [id \in AddIds |-> NoAdd]
  /\ items = [k \in Keys |-> NewItem]
  /\ orderedKeys = ItemOrder
  /\ state = "idle"
  /\ cancelFlag = FALSE
  /\ pauseFlag = FALSE
  /\ loops = [l \in LoopIds |-> NoLoop]

NextPause ==
  \/ \E l \in LoopIds : PauseQueueStart(l)
  \/ \E l \in LoopIds : DelayDone(l)
  \/ \E l \in LoopIds, pdf \in BOOLEAN : GetPdfDone(l, pdf)
  \/ \E l \in LoopIds, status \in ItemStages : ParseReports(l, status)
  \/ \E l \in LoopIds, outcome \in {"returned", "threw", "cancelled"} :
       ParseEnds(l, outcome)
  \/ Pause
  \/ ResumeQueue
  \/ Stop
  \/ Clear
  \/ RemoveCompleted
  \/ RetryFailed

SpecPause == InitPause /\ [][NextPause]_vars

(* MaxAdds add operations on the window's task list, overlapping *)
InitAdd ==
  /\ QueueIdle
  /\ LateIdle
  /\ FilesIdle
  /\ PauseIdle
  /\ adding = [id \in AddIds |-> NoAdd]

NextAdd ==
  \/ \E id \in AddIds, selected \in ParentLists : OnAddSelected(id, selected)
  \/ \E id \in AddIds, pdf, parsed \in BOOLEAN : AddGetPdfDone(id, pdf, parsed)
  \/ \E id \in AddIds, candidates \in ParentLists :
       ImportCandidatesToQueue(id, candidates)
  \/ \E id \in AddIds, invalid \in SUBSET Parents :
       ImportGetAsyncDone(id, invalid)
  \/ \E id \in AddIds : ImportDelayDone(id)

SpecAdd == InitAdd /\ [][NextAdd]_vars

(* parseItem calls over two directories left by earlier calls, listed in
   any order of their timestamps *)
InitLookup ==
  /\ QueueIdle
  /\ LateIdle
  /\ PauseIdle
  /\ adding = [id \in AddIds |-> NoAdd]
  /\ zip = NoZip
  /\ call = NoCall
  /\ \E f1, f2 \in StoredInfos, t1, t2 \in {1, 2}, w1, w2 \in BOOLEAN :
       cacheDirs = <<LeftDir(1, f1, t1, w1), LeftDir(2, f2, t2, w2)>>

NextLookup ==
  \/ \E info \in Infos, force \in BOOLEAN : CacheParseItem(info, force)
  \/ CacheRemoteDone(FALSE, <<>>, Num(0))
  \/ \E outcome \in {"done", "importFailed", "importCancelled"} :
       CacheImportDone(outcome)
  \/ \E k \in {1, 2} : MarkdownRemoved(k)

SpecLookup == InitLookup /\ [][NextLookup]_vars

(* pollBatchResult alone, its clock and the caller's shouldCancel *)
InitPoll ==
  /\ QueueIdle
  /\ OthersIdle

NextPoll ==
  \/ \E timeout \in 1..MaxPolls : PollBatchResult(timeout)
  \/ \E resp \in StatusResponses, d \in {0, 1} : PollRequestDone(resp, d)
  \/ \E d \in {0, 1} : PollSleepDone(d)
  \/ PollCancelRequested

SpecPoll == InitPoll /\ [][NextPoll]_vars

(* the responses that list at most one sub-result *)
ShortResponses == {r \in StatusResponses : Len(r.extract_result) <= 1}

NextPollLive ==
  \/ \E timeout \in 1..MaxPolls : PollBatchResult(timeout)
  \/ \E resp \in ShortResponses, d \in {0, 1} : PollRequestDone(resp, d)
  \/ \E d \in {0, 1} : PollSleepDone(d)
  \/ PollCancelRequested

(* every request is answered, every sleep ends, and time advances: of the
   sleeps that keep being taken, some last a tick *)
SpecPollLive ==
  /\ InitPoll
  /\ [][NextPollLive]_vars
  /\ WF_vars(\E resp \in ShortResponses, d \in {0, 1} : PollRequestDone(resp, d))
  /\ WF_vars(\E d \in {0, 1} : PollSleepDone(d))
  /\ SF_vars(PollSleepDone(1))

(* the image stage of one import after the other *)
InitImport ==
  /\ QueueIdle
  /\ OthersIdle

NextImport ==
  \/ \E n \in 1..(MaxImages + 1), hit \in BOOLEAN : ImportImages(n, hit)
  \/ \E reads \in SeqsUpTo(ReadOutcomes, MaxImages + 1) \ {<<>>} :
       ImagesRead(reads)
  \/ \E ok \in BOOLEAN : AttachmentDone(ok)
  \/ ImportTail

SpecImport == InitImport /\ [][NextImport]_vars

(* the auto-parse observer, registered at onMainWindowLoad *)
InitAuto ==
  /\ QueueIdle
  /\ OthersIdle

NextAuto ==
  \/ \E event \in NotifyEvents, type \in {"item", "collection"},
        pref \in BOOLEAN, ids \in SeqsUpTo(AutoItems, 2) :
       Notify(event, type, pref, ids)
  \/ \E noted \in BOOLEAN : AutoParseItemEnds(noted)
  \/ \E p \in AutoParents : ParsedNoteChanges(p)
  \/ UnregisterAutoParseObserver

SpecAuto == InitAuto /\ [][NextAuto]_vars

(* the same while the observer stays registered, every parseItem call of
   processQueue ending *)
NextAutoLive ==
  \/ \E event \in NotifyEvents, type \in {"item", "collection"},
        pref \in BOOLEAN, ids \in SeqsUpTo(AutoItems, 2) :
       Notify(event, type, pref, ids)
  \/ \E noted \in BOOLEAN : AutoParseItemEnds(noted)
  \/ \E p \in AutoParents : ParsedNoteChanges(p)

SpecAutoLive ==
  /\ InitAuto
  /\ [][NextAutoLive]_vars
  /\ WF_vars(\E noted \in BOOLEAN : AutoParseItemEnds(noted))

(* one batchImportImages call after the other, with up to one task more
   than a batch of reads holds *)
InitImages ==
  /\ QueueIdle
  /\ OthersIdle

NextImages ==
  \/ \E n \in 1..(IMAGE_CONCURRENCY + 1) : BatchImportImages(n)
  \/ \E t \in 1..(IMAGE_CONCURRENCY + 1), hasData \in BOOLEAN :
       ReadSettles(t, hasData)
  \/ \E ok \in BOOLEAN : AttachmentSettles(ok)

SpecImages == InitImages /\ [][NextImages]_vars

(* the batch queue under the window's three start buttons, the stop
   buttons and the pipeline invocations ending *)
NextSelect ==
  \/ Start
  \/ \E t \in Ids : StartTask(t)
  \/ \E sel \in SUBSET Ids : OnStartSelected(sel)
  \/ StopAll
  \/ \E t \in Ids : StopTask(t)
  \/ \E t \in Ids : ParseItemReturns(t)
  \/ \E t \in Ids : ParseItemCancelled(t)
  \/ \E t \in Ids : ParseItemFails(t)

SpecSelect == Init /\ [][NextSelect]_vars

PipeOK ==
  /\ pipe.pc \notin Idle /\ pipe.caller = "batch" => InFlight(pipe.task)
  /\ pipe.polls <= MaxPolls
  /\ Len(pipe.log) <= 40

TypeOK ==
  /\ \A t \in Ids : InFlight(t) <=> tasks[t].status = "running"
  /\ runningCount \in 0..NTasks
  /\ sessionID \in 0..MaxSession

(* ------------------------------ claims --------------------------------- *)
Running == {t \in Ids : tasks[t].status = "running"}

StartStep == Start \/ \E t \in Ids : StartTask(t)

NewlyRunning(t) == tasks[t].status # "running" /\ tasks'[t].status = "running"

StageRank ==
  [uploading |-> 1, queued |-> 2, parsing |-> 3, downloading |-> 4,
   importing |-> 5, done |-> 6]

RankOf(st) == IF st \in DOMAIN StageRank THEN StageRank[st] ELSE 0

InOrder(log) ==
  /\ \A i, j \in DOMAIN log : i < j => RankOf(log[i]) <= RankOf(log[j])
  /\ \A i \in DOMAIN log : log[i] = "done" => i = Len(log)

NewInvocation ==
  \/ \E t \in Ids : BatchParseItem(t)
  \/ \E force \in BOOLEAN : ParseSelectedItem(force)

RECURSIVE Dedup(_)
Dedup(log) ==
  IF Len(log) <= 1 THEN log
  ELSE IF log[1] = log[2] THEN Dedup(Tail(log))
       ELSE <<log[1]>> \o Dedup(Tail(log))

ContainsSeq(msg, m) ==
  \E k \in 0..(Len(msg) - Len(m)) :
    \A i \in DOMAIN m : msg[k + i] = m[i]

(* C1: the number of tasks whose status is running never exceeds the
   concurrency limit *)
C1_RunningNeverExceedsLimit == Cardinality(Running) <= getConcurrency

C2_StopAllStep ==
  StopAll =>
    /\ stopRequested'
    /\ \A t \in Ids :
         /\ (tasks[t].status = "queued" =>
              (tasks'[t].status = "stopped" /\ run'[t] = NoRun))
         /\ (tasks[t].status = "running" =>
              (tasks'[t].status = "running" /\ tasks'[t].cancelRequested))

C2_HeldStep ==
  (stopRequested /\ ~StartStep) =>
    /\ stopRequested'
    /\ \A t \in Ids : ~NewlyRunning(t)

(* C2: stopAll turns every queued task to stopped without starting it and
   sets the cancellation flag of every running task; from then on no task
   is started until start or startTask is called *)
C2_StopAllStopsAndHolds == [][C2_StopAllStep /\ C2_HeldStep]_vars

C2_Witness ==
  /\ stopRequested
  /\ \E t, u \in Ids :
       /\ tasks[t].status = "stopped" /\ tasks[t].errorMessage = <<>>
       /\ tasks[u].status = "running" /\ tasks[u].cancelRequested

(* C3: a runTask whose parseItem ends by raising the cancellation error
   leaves the task stopped, never failed *)
C3_CancelErrorMeansStopped ==
  [][\A t \in Ids :
       (InFlight(t) /\ RunTaskThrows(t, CancelError)) =>
          tasks'[t].status = "stopped"]_vars

C3_Witness ==
  \E t \in Ids :
    /\ tasks[t].status = "stopped"
    /\ tasks[t].errorMessage = CancelError
    /\ ~InFlight(t)

(* C6: once start has been called, with no stop or reset and every
   pipeline invocation ending, every queued task eventually reaches
   success, failed or stopped *)
C6_QueuedEventuallySettles ==
  \A t \in 1..NTasks :
    [](started /\ tasks[t].status = "queued"
         => <>(tasks[t].status \in Terminal))

(* C4: when the poll observes the job failed with message m, parseItem
   throws an error containing m, having downloaded nothing and created no
   note, and the batch task running it ends failed, not stopped *)
C4_RemoteFailureMeansFailed ==
  [][\A m \in RemoteMsgs :
       (pipe.pc = "poll" /\ pipe'.pc = "thrown" /\ pipe'.error = ErrRemote(m))
         => /\ ContainsSeq(pipe'.error, m)
            /\ pipe'.downloads = 0
            /\ pipe'.notes = 0
            /\ pipe.caller = "batch" => tasks'[pipe.task].status = "failed"]_vars

(* C7: within one parseItem invocation the stages reported never go back
   in the order uploading, queued, parsing, downloading, importing, done;
   nothing follows done, and nothing is reported once the invocation has
   returned or thrown *)
C7_StagesNeverGoBack ==
  [][/\ InOrder(pipe'.log)
     /\ (pipe.pc \in {"returned", "thrown"} /\ ~NewInvocation)
          => pipe'.log = pipe.log]_vars

C7_Witness ==
  /\ pipe.pc = "returned"
  /\ \A st \in DOMAIN StageRank :
       StageRank[st] > 0 => \E i \in DOMAIN pipe.log : pipe.log[i] = st

(* C8: on a cache hit (force not set) parseItem sends no slot request, no
   upload, no poll and no download, and never fails for a missing token *)
C8_CacheHitStaysLocal ==
  pipe.hit =>
    /\ ~pipe.force
    /\ pipe.slots = 0 /\ pipe.uploads = 0
    /\ pipe.polls = 0 /\ pipe.downloads = 0
    /\ pipe.error # ErrNoToken

C8_Witness ==
  pipe.hit /\ pipe.pc = "returned" /\ ~pipe.token /\ pipe.notes = 1

(* C9 as stated: on a cache hit the stages reported are exactly
   cache-check, then importing, then done *)
C9_CacheHitStagesAsClaimed ==
  (pipe.hit /\ pipe.pc = "returned")
    => Dedup(pipe.log) = <<"cache-check", "importing", "done">>

(* C9 amended: on a cache hit the stages reported are importing, repeated,
   and then done when the import completes; no other stage, and no
   cache-check stage, is reported *)
C9_CacheHitStages ==
  pipe.hit =>
    /\ Dedup(pipe.log) \in {<<"importing">>, <<"importing", "done">>}
    /\ pipe.pc = "returned" <=> Dedup(pipe.log) = <<"importing", "done">>

C9_Witness ==
  pipe.hit /\ pipe.pc = "returned" /\ Len(pipe.log) > 3

(* C10: when shouldCancel first returns true right after the upload
   completes, parseItem throws the cancellation error and no poll request
   has been sent *)
C10_CancelAfterUploadSkipsPoll ==
  pipe.cancelAt = "afterUpload" =>
    /\ pipe.pc = "thrown"
    /\ pipe.error = CancelError
    /\ pipe.polls = 0

C10_Witness ==
  /\ pipe.cancelAt = "afterUpload"
  /\ pipe.uploads = 1
  /\ tasks[pipe.task].status = "stopped"

(* C5: retry on a failed or stopped task leaves it queued with progress 0,
   no error message, no timestamps and the cancellation flag cleared; retry
   on a task in any other status changes nothing *)
C5_RetryEffect ==
  [][\A t \in Ids :
       Retry(t) =>
         IF tasks[t].status \in {"failed", "stopped"}
         THEN /\ tasks'[t].status = "queued"
              /\ tasks'[t].progress = 0
              /\ tasks'[t].errorMessage = <<>>
              /\ ~tasks'[t].startedAt
              /\ ~tasks'[t].endedAt
              /\ ~tasks'[t].durationMs
              /\ ~tasks'[t].cancelRequested
              /\ \A u \in Ids \ {t} : tasks'[u] = tasks[u]
         ELSE tasks' = tasks]_vars

C5_Witness ==
  \E t \in retried :
    /\ tasks[t].status = "queued"
    /\ tasks[t].progress = 0
    /\ ~tasks[t].cancelRequested
    /\ \E u \in Ids : tasks[u].status = "success"

(* ---- claims on the cache, the extraction and the Markdown selection ---- *)
(* a parseItem call has just started (SpecCache) *)
CallStarts == call.pc = "idle" /\ call'.pc # "idle"

(* C11: when a cache-miss call completed extraction and then failed or was
   cancelled during import, the next parseItem call with the same document,
   file and model variant and without force takes the cache-hit path, and a
   call on the cache-hit path makes no remote request. *)
C11_ImportFailureResumesFromCache ==
  [][/\ ( /\ CallStarts
          /\ call.extracted
          /\ call.outcome \in {"importFailed", "importCancelled"}
          /\ call'.info = call.info
          /\ ~call'.force )
        => (call'.hit # NoPath /\ call'.pc = "import")
     /\ call'.hit # NoPath => call'.remote = 0]_vars

(* C12: after writeCacheMetadata has written the entry of a directory, a
   lookup with the same fingerprint returns the Markdown path written. *)
C12_WriteThenLookup ==
  (call.pc = "import" /\ call.wrote) =>
    findCachedMarkdown(call.info) = call.mdPath

C12_Witness ==
  /\ call.pc = "import"
  /\ call.wrote
  /\ call.mdPath # NoPath
  /\ findCachedMarkdown(call.info) = call.mdPath

(* two fingerprints that differ at most in that the size or the modification
   time is absent on one side *)
DifferOnlyByAbsence(f1, f2) ==
  /\ f1.itemKey = f2.itemKey
  /\ f1.attachmentKey = f2.attachmentKey
  /\ f1.modelVersion = f2.modelVersion
  /\ \/ f1.attachmentSize = f2.attachmentSize
     \/ undefined \in {f1.attachmentSize, f2.attachmentSize}
  /\ \/ f1.attachmentMtime = f2.attachmentMtime
     \/ undefined \in {f1.attachmentMtime, f2.attachmentMtime}

(* the directories whose entry was written *)
Stored == {k \in DOMAIN cacheDirs : cacheDirs[k].meta # NoMeta}

(* C13: an entry stored under F1 answers a request with F2 when F1 and F2
   differ only in that size or modification time is absent on one side: the
   lookup returns its path, or the path of a newer entry that matches too. *)
C13_AbsentFieldsMatch ==
  \A k \in Stored : \A f2 \in Infos :
    DifferOnlyByAbsence(cacheDirs[k].meta, f2) =>
      LET r == findCachedMarkdown(f2)
      IN /\ cacheCandidate(k, f2).path = cacheDirs[k].meta.mdPath
         /\ r # NoPath
         /\ \/ r = cacheDirs[k].meta.mdPath
            \/ \E j \in DOMAIN cacheDirs :
                 /\ cacheCandidate(j, f2).path = r
                 /\ cacheCandidate(j, f2).score >= cacheCandidate(k, f2).score

C13_Witness ==
  /\ call.pc = "import"
  /\ call.hit # NoPath
  /\ call.hit.dir \in Stored
  /\ cacheDirs[call.hit.dir].meta.attachmentSize = undefined
  /\ call.info.attachmentSize = Num(2)
  /\ cacheDirs[call.hit.dir].meta.attachmentMtime = Num(1)
  /\ call.info.attachmentMtime = undefined

(* an entry path with a ".." segment, absolute, or drive-qualified *)
Unsafe(entryPath) ==
  \/ \E i \in DOMAIN entryPath : entryPath[i] = ".."
  \/ entryPath # <<>> /\ entryPath[1] \in {"/", "\\"}
  \/ entryPath # <<>> /\ isDrive(entryPath[1])

(* C14 as stated: extraction never completes successfully on an archive
   that has an entry with a ".." segment, an absolute or a drive-qualified
   path. *)
C14_UnsafeEntryAlwaysAborts ==
  zip.pc = "done" =>
    \A i \in DOMAIN zip.entries : ~Unsafe(zip.entries[i])

(* C14: an entry with a ".." segment, an absolute or a drive-qualified path
   that does not end with "/" aborts extraction when the loop reaches it,
   and extraction never completes successfully on an archive that has such
   an entry; an unsafe entry that ends with "/" is skipped and nothing is
   written for it. *)
C14_UnsafeFileEntryAborts ==
  /\ zip.pc = "done" =>
       \A i \in DOMAIN zip.entries :
         Unsafe(zip.entries[i]) => endsWithSlash(zip.entries[i])
  /\ zip.pc = "loop" =>
       \A i \in 1..(zip.i - 1) :
         Unsafe(zip.entries[i]) => endsWithSlash(zip.entries[i])
  /\ \A f \in zip.files \cup zip.dirs : \A i \in DOMAIN f : f[i] # ".."

C14_Witness ==
  /\ zip.pc = "unsafe"
  /\ zip.i = 2
  /\ Unsafe(zip.entries[2])
  /\ zip.files # {}

(* C15: the cache lookup of a parseItem call never returns a Markdown path
   inside the output directory of an extraction that aborted on an unsafe
   entry. *)
C15_AbortedExtractionNeverAccepted ==
  call.hit # NoPath => ~cacheDirs[call.hit.dir].aborted

(* the orderings of a sequence of candidates *)
Orderings(paths) ==
  LET n == Len(paths)
      perms == {f \in [1..n -> 1..n] : \A i, j \in 1..n : i # j => f[i] # f[j]}
  IN {[i \in 1..n |-> paths[f[i]]] : f \in perms}

(* C16: the selected Markdown file is the same for every ordering of the
   candidates: a path under a markdown/ segment when there is one, otherwise
   a path no candidate precedes in case-insensitive order. *)
C16_SelectionIgnoresOrder ==
  zip.pc = "done" =>
    /\ \A o \in Orderings(zip.mdCandidates) :
         selectMarkdown(o) = zip.selected
    /\ (\E i \in DOMAIN zip.mdCandidates : isPreferred(zip.mdCandidates[i]))
         => isPreferred(zip.selected)
    /\ \A i \in DOMAIN zip.mdCandidates :
         \/ isPreferred(zip.selected)
         \/ localeCompare(zip.selected, zip.mdCandidates[i]) <= 0

(* --------- claims on the start/pause/stop queue and on adding ---------- *)
(* the start() invocations whose parseItem call begins in this step *)
ParseStarted ==
  {l \in LoopIds : loops[l].pc # "parseItem" /\ loops'[l].pc = "parseItem"}

(* C17: while the start/pause/stop queue is paused no item's parse is
   started, and pausing does not end a parse that is in flight. *)
C17_PausedStartsNoParse ==
  [][/\ state = "paused" => ParseStarted = {}
     /\ Pause => \A l \in Parsing : loops'[l] = loops[l]]_vars

(* C18: at most one processing loop of the start/pause/stop queue is active
   and at most one parseItem invocation is in flight at any time. *)
C18_OneLoopOneParse ==
  /\ Cardinality(ActiveLoops) <= 1
  /\ Cardinality(Parsing) <= 1

(* C19: the window's task list holds at most one task per parent item,
   whatever the overlap of the add-selected and import operations. *)
C19_OneTaskPerParent ==
  \A i, j \in DOMAIN tasks :
    tasks[i].parentItemID = tasks[j].parentItemID => i = j

(* the statuses in which an item of the start/pause/stop queue is finished *)
ItemTerminal == {"done", "error", "skipped", "cancelled"}

(* C20: an item leaves the queue only by a clear action of the operator and
   only when its status is terminal at that moment: an item that is waiting
   or being parsed is never removed. *)
C20_OnlyTerminalRemoved ==
  [][\A k \in DOMAIN items :
       k \notin DOMAIN items' =>
         /\ Clear \/ RemoveCompleted
         /\ items[k].status \in ItemTerminal
         /\ \A l \in Parsing : loops[l].pending[loops[l].i] # k]_vars

(* ------------------- further claims on the result cache ---------------- *)
(* the fingerprint f of a directory answers the request: same document,
   same source file, size and modification time equal or absent on one
   side, same model variant when the request names one *)
Equivalent(f, info) ==
  /\ f.itemKey = info.itemKey
  /\ f.attachmentKey = info.attachmentKey
  /\ \/ f.attachmentSize = info.attachmentSize
     \/ undefined \in {f.attachmentSize, info.attachmentSize}
  /\ \/ f.attachmentMtime = info.attachmentMtime
     \/ undefined \in {f.attachmentMtime, info.attachmentMtime}
  /\ info.modelVersion # "" => f.modelVersion = info.modelVersion

(* C31: every path the cache lookup of a parseItem call returns lies in a
   directory whose fingerprint, the one it was made for and the one stored
   in it if any, is equivalent to the requested one. *)
C31_HitHasEquivalentFingerprint ==
  call.hit # NoPath =>
    LET d == cacheDirs[call.hit.dir]
    IN /\ Equivalent(d.by, call.info)
       /\ d.meta # NoMeta => Equivalent(d.meta, call.info)

(* what a directory holds for the lookup: the fingerprint stored in it, or
   else the one it was made for; its timestamp; its Markdown path *)
PrintOf(k) ==
  IF k \in Stored THEN cacheDirs[k].meta ELSE cacheDirs[k].by

StampOf(k) ==
  IF k \in Stored THEN cacheDirs[k].meta.createdAt
  ELSE cacheDirs[k].lastModified

MarkdownOf(k) ==
  IF k \in Stored THEN cacheDirs[k].meta.mdPath
  ELSE [dir |-> k, rel |-> <<"full.md">>]

(* the directories that match the request and whose Markdown file exists *)
Matching(info) ==
  {k \in DOMAIN cacheDirs : /\ Equivalent(PrintOf(k), info)
                            /\ exists(MarkdownOf(k))}

(* the lookup returned the newest of the matching directories, and none
   only when there is none *)
NewestMatching(info, r) ==
  /\ Matching(info) # {} =>
       \E k \in Matching(info) :
         /\ r = MarkdownOf(k)
         /\ \A j \in Matching(info) : StampOf(j) <= StampOf(k)
  /\ r = NoPath => Matching(info) = {}

(* C32: a lookup returns the Markdown path of a directory that matches the
   request and whose file exists, one with the newest timestamp among
   them, whenever there is such a directory, directories with a missing
   file being passed over; it returns none only when there is none. *)
C32_NewestMatchingEntry ==
  [][(CallStarts /\ ~call'.force) =>
       NewestMatching(call'.info, call'.hit)]_vars

(* C32 where every directory has a stored entry: then the lookup returns
   none exactly when no stored entry matches with its file in place *)
C32_NewestAmongStored ==
  [][(CallStarts /\ ~call'.force /\ Stored = DOMAIN cacheDirs) =>
       /\ NewestMatching(call'.info, call'.hit)
       /\ call'.hit = NoPath <=> Matching(call'.info) = {}]_vars

(* a stored entry whose file is missing was passed over and the older
   matching entry behind it returned *)
C32_StoredWitness ==
  /\ Stored = DOMAIN cacheDirs
  /\ call.pc = "import"
  /\ call.hit = MarkdownOf(2)
  /\ Equivalent(PrintOf(1), call.info)
  /\ ~exists(MarkdownOf(1))
  /\ StampOf(1) > StampOf(2)

(* ----------------------- further claims on extraction ------------------ *)
(* a path below the output directory made of names only *)
PlainPath(f) ==
  \A i \in DOMAIN f : f[i] \notin {".", "..", "/", "\\"} /\ ~isDrive(f[i])

(* the loop handles entry zip.entries[zip.i] in this step *)
EntryHandled ==
  /\ zip.pc = "loop"
  /\ zip.i <= Len(zip.entries)
  /\ zip' # zip

NothingWritten == zip'.files = zip.files /\ zip'.dirs = zip.dirs

(* the entry path without one leading "./" *)
WithoutLeadingDot(entryPath) ==
  IF Len(entryPath) >= 2 /\ entryPath[1] = "." /\ entryPath[2] \in {"/", "\\"}
  THEN SubSeq(entryPath, 3, Len(entryPath))
  ELSE entryPath

HasDotSegment(entryPath) == \E i \in DOMAIN entryPath : entryPath[i] = "."

(* C33 as stated: every path extraction creates is made of plain names
   below the output directory, and an entry whose path is absolute,
   drive-qualified or has a "." or ".." segment writes nothing. *)
C33_NoDotEntryWritten ==
  [][/\ \A f \in zip'.files \cup zip'.dirs : PlainPath(f)
     /\ (EntryHandled /\ ( \/ Unsafe(zip.entries[zip.i])
                           \/ HasDotSegment(zip.entries[zip.i]) ))
          => NothingWritten]_vars

(* C33: every path extraction creates is made of plain names below the
   output directory, and an entry whose path is absolute or
   drive-qualified, has a ".." segment, or has a "." segment other than
   one leading "./", writes nothing. *)
C33_WritesStayInside ==
  [][/\ \A f \in zip'.files \cup zip'.dirs : PlainPath(f)
     /\ (EntryHandled /\ ( \/ Unsafe(zip.entries[zip.i])
                           \/ HasDotSegment(WithoutLeadingDot(zip.entries[zip.i])) ))
          => NothingWritten]_vars

(* "./full.md" was written as full.md and the marker "../" passed over *)
C33_Witness ==
  /\ zip.entries = << <<".", "/", "full.md">>, <<"..", "/">> >>
  /\ zip.i = 3
  /\ zip.files = {<<"full.md">>}
  /\ zip.dirs = {<<>>}

(* ------------- claims on sessions and on cancellation requests --------- *)
(* a step taken by the pipeline run of task t: a callback, its return or
   its throw *)
PipelineStep(t) ==
  \/ ParseItemReports(t)
  \/ ParseItemReturns(t)
  \/ ParseItemCancelled(t)
  \/ ParseItemFails(t)

(* C25: once the session identifier has changed, a pipeline run started
   under an earlier one changes no field of any task, does not change the
   running count and starts no task. *)
C25_StaleRunChangesNothing ==
  [][\A t \in Ids :
       (InFlight(t) /\ run[t].session # sessionID /\ PipelineStep(t))
         => /\ tasks' = tasks
            /\ runningCount' = runningCount
            /\ \A u \in Ids : ~NewlyRunning(u)]_vars

(* C26: after stopAll or stopTask has requested the cancellation of a
   running task, shouldCancel of that task's pipeline invocation returns
   true for as long as the invocation is in flight, whatever session is
   started meanwhile. *)
C26_CancelRequestStays ==
  [][\A t \in Ids :
       /\ (InFlight(t) /\ (StopAll \/ StopTask(t))) => ShouldCancel(t)'
       /\ (InFlight(t) /\ tasks[t].cancelRequested /\ InFlight(t)')
            => ShouldCancel(t)']_vars

C26_Witness ==
  /\ ~stopRequested
  /\ \E t, u \in Ids :
       /\ InFlight(t) /\ tasks[t].cancelRequested /\ run[t].session # sessionID
       /\ InFlight(u) /\ tasks[u].cancelRequested /\ run[u].session = sessionID

(* ------------- claims on parseItem's preconditions and checks ---------- *)
(* C22: with force set parseItem neither looks the cache up nor takes the
   cache-hit path: an invocation that gets as far as the download has sent
   the slot request, the upload and at least one poll, also when a matching
   cache entry exists. *)
C22_ForceSkipsCache ==
  pipe.force =>
    /\ ~pipe.hit
    /\ pipe.pc # "cacheLookup"
    /\ (pipe.downloads > 0 \/ pipe.notes > 0 \/ pipe.pc = "returned")
         => (pipe.slots = 1 /\ pipe.uploads = 1 /\ pipe.polls >= 1)

C22_Witness ==
  pipe.force /\ pipe.cached /\ pipe.pc = "slot" /\ pipe.slots = 1

(* the errors of parseItem's precondition checks *)
PreconditionErrors == {ErrTooLarge, ErrBetterNotes, ErrNoToken}

(* C24: a parseItem invocation that throws for an oversized file, for the
   missing conversion service or for the missing token has sent no remote
   request and created no note; the batch task running it ends failed, and
   a failed task stays failed until startTask is called on it. *)
C24_PreconditionFailureIsFinal ==
  [][/\ (pipe' # pipe /\ pipe'.pc = "thrown" /\ pipe'.error \in PreconditionErrors)
          => /\ pipe'.slots = 0 /\ pipe'.uploads = 0
             /\ pipe'.polls = 0 /\ pipe'.downloads = 0
             /\ pipe'.notes = 0
             /\ pipe'.caller = "batch" => tasks'[pipe'.task].status = "failed"
     /\ \A t \in Ids :
          (tasks[t].status = "failed" /\ tasks'[t].status # "failed")
            => StartTask(t)]_vars

C24_Witness ==
  /\ pipe.pc = "thrown"
  /\ pipe.error = ErrNoToken
  /\ pipe.caller = "batch"
  /\ ~pipe.cached
  /\ tasks[pipe.task].status = "failed"

(* C28: once shouldCancel returns true, parseItem starts no further blocking
   operation: the next time it resumes it throws. *)
C28_CancelStopsEveryStage ==
  [][(pipe.pc \notin Idle /\ PipeShouldCancel /\ pipe' # pipe)
       => pipe'.pc = "thrown"]_vars

(* ------------------------ claims on the poll loop ---------------------- *)
(* C27: once shouldCancel returns true the polling loop starts neither a
   sleep after the request in flight nor anything after a sleep but the
   throw of the cancellation error. *)
C27_CancelStopsPolling ==
  [][poll.cancel =>
       /\ poll.pc = "request" => poll'.pc # "sleep"
       /\ poll.pc = "sleep" =>
            (poll'.pc = "thrown" /\ poll'.error = CancelError)]_vars

(* how the polling loop may end *)
C29_PollEndings ==
  /\ poll.pc = "returned" =>
       (poll.result.state = "done" /\ poll.result.full_zip_url)
  /\ poll.pc = "thrown" =>
       /\ poll.error \in {ErrTimeout, CancelError, ErrQuery, ErrNoUrl, ErrRequest}
                           \cup {ErrRemote(e.err_msg) : e \in ResultEntries}
       /\ poll.error = ErrTimeout => poll.elapsed >= poll.timeout
       /\ poll.result.state = "failed" => poll.error = ErrRemote(poll.result.err_msg)
  /\ \A e \in ResultEntries : ErrRemote(e.err_msg) # ErrTimeout

(* C29: when time advances the polling loop always ends: by returning the
   result URL of a done job, by an error of the remote side, by the
   cancellation error, or by the timeout error once the elapsed time has
   reached the timeout; the timeout error is not the remote-failure error. *)
C29_PollTerminates ==
  /\ []C29_PollEndings
  /\ (poll.pc \in {"request", "sleep"}) ~> (poll.pc \in {"returned", "thrown"})

C29_Witness ==
  /\ poll.pc = "thrown"
  /\ poll.error = ErrTimeout
  /\ poll.elapsed = poll.timeout
  /\ poll.result.state = "running"

(* the sub-result the claim names: correlation id, else file name, else
   the first element *)
expectedResult(list, dataId, fileName) ==
  IF \E i \in DOMAIN list : list[i].data_id = dataId
  THEN list[CHOOSE i \in DOMAIN list :
              /\ list[i].data_id = dataId
              /\ \A j \in 1..(i - 1) : list[j].data_id # dataId]
  ELSE IF \E i \in DOMAIN list : list[i].file_name = fileName
  THEN list[CHOOSE i \in DOMAIN list :
              /\ list[i].file_name = fileName
              /\ \A j \in 1..(i - 1) : list[j].file_name # fileName]
  ELSE IF list = <<>> THEN NoResult ELSE list[1]

(* C30: the sub-result the poll acts on is the element whose correlation id
   is this job's; when there is none, the element whose file name matches;
   when there is none either, the first element. *)
C30_ResultByIdThenNameThenFirst ==
  (poll.resp.http /\ poll.resp.code = 0 /\ poll.resp.extract_result # <<>>)
    => poll.result = expectedResult(poll.resp.extract_result, DataId, FileName)

(* ----------------------- claims on the image import -------------------- *)
(* batchImportImages has returned to an import with images *)
ImagesSettled ==
  imp.images > 0 /\ imp.pc \in {"impTick3", "impSave", "impTick4", "returned", "thrown"}

(* C21: whatever images fail to be read or to be imported,
   batchImportImages returns: the mapping holds exactly the images read and
   imported, the failed list exactly the others, the counts add up to the
   total, and the import goes on to save the note and report done; only
   the save itself failing makes it throw. *)
C21_PartialImageFailure ==
  /\ imp.pc = "thrown" => imp.error = ErrSave
  /\ imp.pc = "imgImport" => imp.k < Len(imp.valid)
  /\ ImagesSettled =>
       /\ imp.srcToKey =
            {i \in 1..imp.images : imp.reads[i] = "data" /\ i \in imp.importOk}
       /\ {imp.failed[j] : j \in DOMAIN imp.failed} = (1..imp.images) \ imp.srcToKey
       /\ imp.successCount = Cardinality(imp.srcToKey)
       /\ imp.successCount + Len(imp.failed) = imp.images
       /\ imp.totalCount = imp.images
       /\ imp.remainingImages = Len(imp.failed)
  /\ imp.pc = "returned" =>
       (imp.log # <<>> /\ imp.log[Len(imp.log)] = "done")

C21_Witness ==
  /\ imp.pc = "returned"
  /\ imp.images = 2
  /\ imp.successCount = 1
  /\ imp.failed # <<>>
  /\ imp.log[Len(imp.log)] = "done"

(* ------------------------- claims on auto-parse ------------------------ *)
(* processQueue has just called parseItem *)
AutoParseItemCalled ==
  /\ auto'.i > 0
  /\ <<auto'.i, auto'.invoked>> # <<auto.i, auto.invoked>>

(* C23: processQueue calls parseItem only for a parent that has no parsed
   note at the moment its attachment is taken, and for a parent it has not
   called parseItem for earlier in the same processing run, however many
   PDF notifications for that parent arrive. *)
C23_AutoParseOncePerParent ==
  [][AutoParseItemCalled =>
       LET p == parentItem(auto'.items[auto'.i])
           before == IF auto.i = 0 THEN <<>> ELSE auto.invoked
       IN /\ p \notin auto.notes
          /\ p \notin {before[j] : j \in DOMAIN before}
          /\ auto'.invoked = Append(before, p)]_vars

(* a run has called parseItem for P1, the call left no note, and the run
   has gone on to P2 with P1 still held in queuedParents *)
C23_Witness ==
  /\ auto.invoked = <<"P1", "P2">>
  /\ auto.i = 2
  /\ "P1" \notin auto.notes
  /\ auto.items = <<"A1", "A3">>
  /\ auto.processing
  /\ auto.queuedParents = {"P1", "P2"}

(* ------------------- claims on the two phases of the import ------------ *)
(* C34: during a batchImportImages call at most `concurrency` reads are in
   flight, an attachment import is in flight only when every read has
   settled, and at most one attachment import is in flight. *)
C34_ReadsBoundedImportsSequential ==
  /\ Cardinality(img.inFlight) <= img.concurrency
  /\ img.concurrency = IMAGE_CONCURRENCY
  /\ img.importing # {} => (img.inFlight = {} /\ img.done = img.total)
  /\ Cardinality(img.importing) <= 1
  /\ img.importing \subseteq img.data

(* the ninth read is in flight after the eight of the first batch settled *)
C34_Witness ==
  /\ img.pc = "reading"
  /\ img.total = IMAGE_CONCURRENCY + 1
  /\ img.inFlight = {IMAGE_CONCURRENCY + 1}
  /\ img.done = IMAGE_CONCURRENCY

(* --------------------- claims on the order of starts ------------------- *)
(* task j is queued before and after the step, hence at every moment of
   the handler in between: no handler takes a task out of queued and puts
   it back *)
StaysQueued(j) == tasks[j].status = "queued" /\ tasks'[j].status = "queued"

(* C35 as stated: the queue never starts a task while a task inserted
   earlier is queued. *)
C35_StartsInInsertionOrder ==
  [][\A t \in Ids :
       NewlyRunning(t) => \A j \in Ids : j < t => ~StaysQueued(j)]_vars

(* C35: the queue never starts a task while a task inserted earlier that
   is in the list the start operation handed to pump (all tasks, the
   selected tasks, or the single task) is queued. *)
C35_StartsInOrderOfGivenList ==
  [][\A t \in Ids :
       NewlyRunning(t) =>
         \A j \in run'[t].scope : j < t => ~StaysQueued(j)]_vars

(* the second task runs by a single-task start, the first is still queued *)
C35_Witness ==
  /\ tasks[1].status = "queued"
  /\ tasks[2].status = "running"
  /\ run[2].scope = {2}
  /\ run[2].session = sessionID

(* C36: a single-task start of a task that is queued, failed or stopped
   leaves that task running in the current session, whatever the number of
   running tasks. *)
C36_SingleStartBypassesCap ==
  [][\A t \in Ids :
       StartTask(t) =>
         /\ tasks'[t].status = "running"
         /\ run'[t].session = sessionID']_vars


(* a callback step of task t's pipeline left everything of the task list
   alone but t's statusText and progress *)
OnlyTextAndProgress(t) ==
  /\ \A j \in Ids \ {t} : tasks'[j] = tasks[j]
  /\ [tasks'[t] EXCEPT !.statusText = "", !.progress = 0]
       = [tasks[t] EXCEPT !.statusText = "", !.progress = 0]

(* C37: while the parseItem call of a task's runTask is in flight the
   task's status is running, and a step of the pipeline's stage and
   progress callbacks changes nothing of the task list but that task's
   statusText and progress. *)
C37_CallbacksMirrorTextAndProgress ==
  /\ [](\A t \in Ids : run[t].pc = "parseItem" => tasks[t].status = "running")
  /\ [][\A t \in Ids :
          ParseItemReports(t) =>
            /\ OnlyTextAndProgress(t)
            /\ tasks'[t].status = "running"]_vars

(* the callbacks of the running task 1 reported the importing stage *)
C37_Witness ==
  /\ run[1].pc = "parseItem"
  /\ run[1].session = sessionID
  /\ tasks[1].status = "running"
  /\ tasks[1].statusText = "importing"
  /\ tasks[1].progress = 70
  /\ tasks[2].status = "running"
  /\ tasks[2].statusText = "running"

(* the item the loop l is parsing *)
ParsedKey(l) == loops[l].pending[loops[l].i]

(* C38 as stated, for the item being parsed: when a parseItem call of the
   start/pause/stop queue ends with the cancellation error after stop, its
   item is marked cancelled, not error. *)
C38_CancelledParseMarkedCancelled ==
  [][\A l \in LoopIds :
       (ParseEnds(l, "cancelled") /\ ParsedKey(l) \in DOMAIN items')
         => items'[ParsedKey(l)].status = "cancelled"]_vars

(* the status changes of one assignment to task.status *)
AllowedChanges ==
  {<<"queued", "running">>, <<"queued", "stopped">>,
   <<"running", "success">>, <<"running", "failed">>,
   <<"running", "stopped">>,
   <<"failed", "queued">>, <<"stopped", "queued">>}

(* a start handler retries a failed or stopped task and pumps in one go:
   the task is queued by retry and running when the handler returns *)
RetriedAndStarted(t) ==
  /\ <<tasks[t].status, retry(tasks[t]).status>> \in AllowedChanges
  /\ <<retry(tasks[t]).status, tasks'[t].status>> \in AllowedChanges

(* C39: a handler of the concurrent batch queue changes a task's status
   only by queued to running, queued to stopped, running to success,
   failed or stopped, failed to queued and stopped to queued (a start
   handler by failed or stopped to queued and then queued to running); a
   task never leaves success and never goes from queued to success or
   failed. *)
C39_OnlyAllowedStatusChanges ==
  [][\A t \in Ids :
       \/ tasks'[t].status = tasks[t].status
       \/ <<tasks[t].status, tasks'[t].status>> \in AllowedChanges
       \/ RetriedAndStarted(t)]_vars

(* task 1 ran and failed; task 2 was stopped while queued and put back
   to queued by a retry *)
C39_Witness ==
  /\ tasks[1].status = "failed"
  /\ tasks[1].startedAt
  /\ tasks[2].status = "queued"
  /\ 2 \in retried

(* the attachment x is in the auto-parse queue, or in the list of the
   processing run behind the item whose parseItem call is awaited *)
Waiting(x) ==
  \/ \E j \in DOMAIN auto.queue : auto.queue[j] = x
  \/ \E j \in DOMAIN auto.items : j > auto.i /\ auto.items[j] = x

(* the step's loop reached x: parseItem is called for it, or it is skipped
   because its parent has a parsed note *)
TakenByRun(x) ==
  \/ auto'.i > 0 /\ auto'.items[auto'.i] = x
  \/ hasExistingParsedNote(auto', parentItem(x))

(* C40: while the observer stays registered and every parseItem call of
   processQueue ends, an attachment accepted into the auto-parse queue,
   also one accepted while a run is in progress, is eventually taken by
   the run's loop, and it leaves the queue only by being parsed or
   skipped there. *)
C40_AcceptedEventuallyTaken ==
  /\ \A x \in AutoItems : Waiting(x) ~> ~Waiting(x)
  /\ [][\A x \in AutoItems :
          (Waiting(x) /\ ~Waiting(x)') => TakenByRun(x)]_vars

(* A3 was accepted while parseItem ran for A1, the drain moved it into the
   run's list and parseItem is now called for it *)
C40_Witness ==
  /\ auto.registered
  /\ auto.processing
  /\ auto.drained = 1
  /\ auto.items = <<"A1", "A3">>
  /\ auto.i = 2
  /\ auto.invoked = <<"P1", "P2">>

====
